---- MODULE Spec2Model ----
(***************************************************************************)
(* Model of the web search skill: QueryRewriter (query_rewriter.py),       *)
(* SerperSearch (search_serper.py), JinaFetcher (fetch_jina.py) and the    *)
(* orchestrator WebSearchSkill.search (web_search_skill.py).               *)
(*                                                                         *)
(* Text is a sequence of Unicode code points (a Python str): <<26368,      *)
(* 36817>> is "最近".  Urls, titles and snippets of search results, which  *)
(* the code only copies and compares, are TLA+ strings.  Python's None is  *)
(* the value None; an absent or empty user_location (both falsy) is <<>>.  *)
(***************************************************************************)
EXTENDS Integers, Sequences, FiniteSets, TLC

VARIABLES
    \* QueryRewriter
    llm_api_key,      \* self.llm_api_key is set (truthy)
    rw_pc,            \* position of rewrite(): idle, awaiting_llm, returned, raised
    rw_args,          \* (user_query, user_location, user_language) of the call
    llm_requests,     \* number of client.post calls made by the call
    llm_outcome,      \* what the LLM boundary answered (NoOutcome before)
    rw_result,        \* the returned plan (NoPlan before, and when it raised)
    rw_error,         \* the exception that left rewrite(), or "none"
    \* WebSearchSkill.search
    pc,               \* idle, rewriting, searching, awaiting_search, fetching, returned, raised
    req,              \* the arguments of the request
    search_queries,   \* rewrite_result["search_queries"]
    sq_idx,           \* index of the rewritten query being searched
    search_calls,     \* the searcher.search calls issued, in order
    search_log,       \* the outcome of each issued search call, in order
    responses,        \* the result lists the provider returned, in order
    all_sources,      \* the accumulator
    seen_urls,        \* the dedup set
    bundle,           \* the returned SearchResult (NoBundle before, and when it raised)
    error,            \* the exception that left search(), or "none"
    \* JinaFetcher.fetch_many
    fm_pc,            \* idle, running, returned, raised
    fm_args,          \* (urls, max_concurrent, timeout, max_length)
    sem,              \* asyncio.Semaphore._value
    task_pc,          \* per task: pending (before/at the semaphore), fetching, done
    task_outcome,     \* per task: what the network answered its fetch_one
    task_result,      \* per task: what its fetch_one returned
    fm_result,        \* the returned list (<<>> before)
    fm_out_of_order,  \* some task finished while a task before it in the list had not
    \* JinaFetcher.fetch_one called on its own
    fo_pc,            \* idle, awaiting, returned, raised
    fo_args,          \* (url, timeout, max_length)
    fo_outcome,       \* what the network answered
    fo_result,        \* the returned FetchedContent (NoPage before)
    \* SearchResult.to_context_string and SearchResult.get_reference_list
    sr,               \* the SearchResult the methods are called on
    ctx_pc,           \* position of to_context_string: idle, returned
    ctx_arg,          \* max_tokens_per_source of the call
    context,          \* what to_context_string returned: its parts and the joined text
    ref_pc,           \* position of get_reference_list: idle, returned
    refs,             \* what get_reference_list returned
    \* requests running concurrently on one WebSearchSkill
    cc                \* per request: the locals of its search() call

vars == <<llm_api_key, rw_pc, rw_args, llm_requests, llm_outcome, rw_result, rw_error,
          pc, req, search_queries, sq_idx, search_calls, search_log, responses,
          all_sources, seen_urls, bundle, error,
          fm_pc, fm_args, sem, task_pc, task_outcome, task_result, fm_result,
          fm_out_of_order, fo_pc, fo_args, fo_outcome, fo_result,
          sr, ctx_pc, ctx_arg, context, ref_pc, refs, cc>>

rw_vars == <<llm_api_key, rw_pc, rw_args, llm_requests, llm_outcome, rw_result, rw_error>>
orch_vars == <<pc, req, search_queries, sq_idx, search_calls, search_log, responses,
               all_sources, seen_urls, bundle, error>>
fm_vars == <<fm_pc, fm_args, sem, task_pc, task_outcome, task_result, fm_result,
             fm_out_of_order>>
fo_vars == <<fo_pc, fo_args, fo_outcome, fo_result>>
render_vars == <<sr, ctx_pc, ctx_arg, context, ref_pc, refs>>
conc_vars == <<cc>>

None == "None"

(***************************************************************************)
(* Python str and list operations                                          *)
(***************************************************************************)
Min(a, b) == IF a < b THEN a ELSE b
Max(a, b) == IF a > b THEN a ELSE b

\* s[:n] for a list or str s and an int n (a negative n counts from the end)
PySlicePrefix(s, n) ==
    IF n >= 0 THEN SubSeq(s, 1, Min(n, Len(s)))
              ELSE SubSeq(s, 1, Max(Len(s) + n, 0))

\* s[n:] for 0 <= n
PySliceFrom(s, n) == SubSeq(s, n + 1, Len(s))

\* str.isspace of one character
IsSpace(c) == c \in {9, 10, 11, 12, 13, 28, 29, 30, 31, 32, 133, 160, 12288}

RECURSIVE LStrip(_)
LStrip(s) == IF s # <<>> /\ IsSpace(Head(s)) THEN LStrip(Tail(s)) ELSE s

RECURSIVE RStrip(_)
RStrip(s) ==
    IF s # <<>> /\ IsSpace(s[Len(s)]) THEN RStrip(SubSeq(s, 1, Len(s) - 1)) ELSE s

\* str.strip()
Strip(s) == RStrip(LStrip(s))

\* str.lower(), on the ASCII letters
Lower(s) == [i \in 1..Len(s) |-> IF s[i] >= 65 /\ s[i] <= 90 THEN s[i] + 32 ELSE s[i]]

\* s.startswith(p)
StartsWith(s, p) == Len(p) <= Len(s) /\ SubSeq(s, 1, Len(p)) = p

\* s.endswith(p)
EndsWith(s, p) == Len(p) <= Len(s) /\ SubSeq(s, Len(s) - Len(p) + 1, Len(s)) = p

\* p in s
Contains(s, p) ==
    \E i \in 0..(Len(s) - Len(p)) : SubSeq(s, i + 1, i + Len(p)) = p

\* len(re.findall(r'[一-鿿]', s))
CountCJK(s) == Cardinality({i \in 1..Len(s) : s[i] >= 19968 /\ s[i] <= 40959})

(***************************************************************************)
(* QueryRewriter._rewrite_with_rules                                       *)
(***************************************************************************)
\* the list without its Chinese keywords
news_keywords_EnglishOnly == <<
    <<108, 97, 116, 101, 115, 116>>,                   \* latest
    <<116, 111, 100, 97, 121>>,                        \* today
    <<121, 101, 115, 116, 101, 114, 100, 97, 121>>,    \* yesterday
    <<116, 104, 105, 115, 32, 119, 101, 101, 107>>,    \* this week
    <<110, 101, 119, 115>>,                            \* news
    <<98, 114, 101, 97, 107, 105, 110, 103>> >>        \* breaking

news_keywords == <<
    <<26368, 26032>>,                                  \* 最新
    <<20170, 22825>>,                                  \* 今天
    <<20170, 26085>>,                                  \* 今日
    <<26152, 22825>>,                                  \* 昨天
    <<26412, 21608>>,                                  \* 本周
    <<108, 97, 116, 101, 115, 116>>,                   \* latest
    <<116, 111, 100, 97, 121>>,                        \* today
    <<121, 101, 115, 116, 101, 114, 100, 97, 121>>,    \* yesterday
    <<116, 104, 105, 115, 32, 119, 101, 101, 107>>,    \* this week
    <<26032, 38395>>,                                  \* 新闻
    <<110, 101, 119, 115>>,                            \* news
    <<21018, 21018>>,                                  \* 刚刚
    <<98, 114, 101, 97, 107, 105, 110, 103>> >>        \* breaking

recent_prefix == <<26368, 36817>>                      \* 最近

type_keywords == <<
    <<26032, 38395>>,                                  \* 新闻
    <<110, 101, 119, 115>>,                            \* news
    <<26368, 26032, 28040, 24687>>,                    \* 最新消息
    <<20107, 20214>> >>                                \* 事件

prefix_words == <<
    <<35831, 38382>>,                                  \* 请问
    <<24110, 25105, 26597, 19968, 19979>>,             \* 帮我查一下
    <<24110, 25105, 26597>>,                           \* 帮我查
    <<24110, 25105, 25628, 19968, 19979>>,             \* 帮我搜一下
    <<24110, 25105, 25628>>,                           \* 帮我搜
    <<24110, 25105>>,                                  \* 帮我
    <<25105, 24819, 30693, 36947>>,                    \* 我想知道
    <<21487, 20197, 21578, 35785, 25105>>,             \* 可以告诉我
    <<20320, 33021, 24110, 25105>>,                    \* 你能帮我
    <<33021, 19981, 33021, 24110, 25105>> >>           \* 能不能帮我

location_keywords == <<
    <<38468, 36817>>,                                  \* 附近
    <<21608, 22260>>,                                  \* 周围
    <<21738, 37324>>,                                  \* 哪里
    <<25512, 33616>>,                                  \* 推荐
    <<39184, 21381>>,                                  \* 餐厅
    <<37202, 24215>>,                                  \* 酒店
    <<110, 101, 97, 114>>,                             \* near
    <<110, 101, 97, 114, 98, 121>>,                    \* nearby
    <<114, 101, 115, 116, 97, 117, 114, 97, 110, 116>>, \* restaurant
    <<104, 111, 116, 101, 108>> >>                     \* hotel

\* any(kw in s for kw in kws)
AnyKeywordIn(kws, s) == \E k \in 1..Len(kws) : Contains(s, kws[k])

\* the number of search queries a plan keeps (search_queries[:3])
MaxQueries == 3

\* the length above which a filler prefix is stripped (len(query) > 15)
SimplifyMinLen == 15

\* language = "zh-cn" if chinese_chars > len(query) * 0.3 else "en"
DetectLanguage(query) ==
    IF 10 * CountCJK(query) > 3 * Len(query) THEN "zh-cn" ELSE "en"

\* the keyword match tested last, so that it wins over the 最近 prefix
RuleTimeFilter_KeywordWins(query) ==
    IF AnyKeywordIn(news_keywords, Lower(query)) THEN "w"
    ELSE IF StartsWith(query, recent_prefix) THEN "m"
    ELSE None

\* the for/break loop over news_keywords, then the startswith("最近") override
RuleTimeFilter(query) ==
    IF StartsWith(query, recent_prefix) THEN "m"
    ELSE IF AnyKeywordIn(news_keywords, Lower(query)) THEN "w"
    ELSE None

RuleSearchType(query) ==
    IF AnyKeywordIn(type_keywords, query) THEN "news" ELSE "search"

\* the for/break loop over prefix_words: the first matching prefix is removed
Simplify(query) ==
    IF \E k \in 1..Len(prefix_words) : StartsWith(query, prefix_words[k])
    THEN LET k == CHOOSE j \in 1..Len(prefix_words) :
                      /\ StartsWith(query, prefix_words[j])
                      /\ \A h \in 1..(j - 1) : ~StartsWith(query, prefix_words[h])
         IN  Strip(PySliceFrom(query, Len(prefix_words[k])))
    ELSE query

\* the simplified form appended after the query instead of inserted before it
RuleQueries_SimplifiedLast(query, user_location) ==
    LET simplified == Simplify(query)
        base == IF Len(query) > SimplifyMinLen /\ simplified # <<>> /\ simplified # query
                THEN <<query, simplified>>
                ELSE <<query>>
        located == IF user_location # <<>> /\ AnyKeywordIn(location_keywords, query)
                   THEN Append(base, query \o <<32>> \o user_location)
                   ELSE base
    IN  PySlicePrefix(located, MaxQueries)

RuleQueries(query, user_location) ==
    LET simplified == Simplify(query)
        base == IF Len(query) > SimplifyMinLen /\ simplified # <<>> /\ simplified # query
                THEN <<simplified, query>>
                ELSE <<query>>
        located == IF user_location # <<>> /\ AnyKeywordIn(location_keywords, query)
                   THEN Append(base, query \o <<32>> \o user_location)
                   ELSE base
    IN  PySlicePrefix(located, MaxQueries)

RewriteWithRules(user_query, user_location, user_language) ==
    LET query == Strip(user_query)
    IN  [search_queries |-> RuleQueries(query, user_location),
         language       |-> DetectLanguage(query),
         time_filter    |-> RuleTimeFilter(query),
         search_type    |-> RuleSearchType(query)]

(***************************************************************************)
(* QueryRewriter._rewrite_with_llm                                         *)
(*                                                                         *)
(* An outcome of the LLM boundary is what client.post and the response     *)
(* give the try block.  kind:                                              *)
(*   http_status     raise_for_status() raises httpx.HTTPStatusError       *)
(*   timeout         client.post raises httpx.TimeoutException             *)
(*   network         client.post raises httpx.ConnectError                 *)
(*   body_not_json   response.json() raises json.JSONDecodeError           *)
(*   bad_structure   data has no ["choices"][0]["message"]["content"]      *)
(*   empty_content   the content is empty once stripped of fences          *)
(*   no_object       the content holds no "{"                              *)
(*   unbalanced      the content's braces never close                      *)
(*   invalid_json    the braces close, json.loads of the span fails        *)
(*   non_object      the content parses to a JSON list                     *)
(*   object          the content parses to the JSON object `value`, a      *)
(*                   record whose DOMAIN is the keys it holds              *)
(***************************************************************************)
NoPlan == [none |-> TRUE]
NoOutcome == [kind |-> "none"]

\* result.get(key, default)
DictGet(d, key, default) == IF key \in DOMAIN d THEN d[key] ELSE default

\* lines 142-150: the validation of the parsed object and the returned plan
LlmPlan(result) ==
    [search_queries |-> PySlicePrefix(result.search_queries, MaxQueries),
     language       |-> DictGet(result, "language", "zh-cn"),
     time_filter    |-> DictGet(result, "time_filter", None),
     search_type    |-> DictGet(result, "search_type", "search")]

\* The try block, lines 60-150: the exception it raises ("none": it returned
\* `plan`), and whether the local `text` was assigned (line 130) before.
LlmTry(o) ==
    CASE o.kind = "http_status" ->
             [exc |-> "HTTPStatusError", text_bound |-> FALSE, plan |-> NoPlan]
      [] o.kind = "timeout" ->
             [exc |-> "TimeoutException", text_bound |-> FALSE, plan |-> NoPlan]
      [] o.kind = "network" ->
             [exc |-> "ConnectError", text_bound |-> FALSE, plan |-> NoPlan]
      [] o.kind = "body_not_json" ->
             [exc |-> "JSONDecodeError", text_bound |-> FALSE, plan |-> NoPlan]
      [] o.kind = "bad_structure" ->
             [exc |-> "KeyError", text_bound |-> FALSE, plan |-> NoPlan]
      [] o.kind \in {"empty_content", "no_object", "unbalanced"} ->
             [exc |-> "ValueError", text_bound |-> TRUE, plan |-> NoPlan]
      [] o.kind = "invalid_json" ->
             [exc |-> "JSONDecodeError", text_bound |-> TRUE, plan |-> NoPlan]
      [] o.kind = "non_object" ->
             [exc |-> "ValueError", text_bound |-> TRUE, plan |-> NoPlan]
      [] OTHER ->
             IF "search_queries" \notin DOMAIN o.value \/ o.value.search_queries = <<>>
             THEN [exc |-> "ValueError", text_bound |-> TRUE, plan |-> NoPlan]
             ELSE [exc |-> "none", text_bound |-> TRUE, plan |-> LlmPlan(o.value)]

\* The except clauses, lines 152-176, in their order.  The handlers of
\* JSONDecodeError and ValueError read `text` (lines 165, 169): when the try
\* block raised before line 130, that read raises UnboundLocalError, which
\* leaves the function.
LlmExcept(t, args) ==
    LET fallback == [plan   |-> RewriteWithRules(args.query, args.location, args.language),
                     raised |-> "none"]
    IN  CASE t.exc = "none" -> [plan |-> t.plan, raised |-> "none"]
          [] t.exc = "HTTPStatusError" -> fallback
          [] t.exc \in {"JSONDecodeError", "ValueError"} ->
                 IF t.text_bound THEN fallback
                 ELSE [plan |-> NoPlan, raised |-> "UnboundLocalError"]
          [] OTHER -> fallback

\* rewrite(), lines 42-51, up to its first suspension: without a key the
\* rule path returns at once; with a key the one request is sent (line 112).
RewriteCall(q, loc, lang) ==
    /\ rw_pc = "idle"
    /\ rw_args' = [query |-> q, location |-> loc, language |-> lang]
    /\ IF llm_api_key
       THEN /\ rw_pc' = "awaiting_llm"
            /\ llm_requests' = llm_requests + 1
            /\ UNCHANGED <<rw_result>>
       ELSE /\ rw_pc' = "returned"
            /\ rw_result' = RewriteWithRules(q, loc, lang)
            /\ UNCHANGED <<llm_requests>>
    /\ UNCHANGED <<llm_api_key, llm_outcome, rw_error>>

\* _rewrite_with_llm from the answer of the LLM boundary to its return or raise
LlmRespond(o) ==
    /\ rw_pc = "awaiting_llm"
    /\ llm_outcome' = o
    /\ LET r == LlmExcept(LlmTry(o), rw_args)
       IN  /\ rw_result' = r.plan
           /\ rw_error' = r.raised
           /\ rw_pc' = IF r.raised = "none" THEN "returned" ELSE "raised"
    /\ UNCHANGED <<llm_api_key, rw_args, llm_requests>>

(***************************************************************************)
(* JinaFetcher._clean_content and JinaFetcher.fetch_one                    *)
(***************************************************************************)
NL == 10

\* text.split("\n")
RECURSIVE SplitLines(_)
SplitLines(text) ==
    IF \E i \in 1..Len(text) : text[i] = NL
    THEN LET i == CHOOSE j \in 1..Len(text) :
                      text[j] = NL /\ \A h \in 1..(j - 1) : text[h] # NL
         IN  <<SubSeq(text, 1, i - 1)>> \o SplitLines(SubSeq(text, i + 1, Len(text)))
    ELSE <<text>>

\* "\n".join(lines)
RECURSIVE JoinLines(_)
JoinLines(lines) ==
    IF lines = <<>> THEN <<>>
    ELSE IF Len(lines) = 1 THEN lines[1]
    ELSE lines[1] \o <<NL>> \o JoinLines(Tail(lines))

\* a link line counts as short below this length (len(stripped) < 80)
ShortLinkLen == 80

\* the number of consecutive short link lines kept (consecutive_short_links > 3)
KeptShortLinks == 3

\* stripped.startswith("[") and stripped.endswith(")") and len(stripped) < 80
IsShortLink(stripped) ==
    /\ StartsWith(stripped, <<91>>)
    /\ EndsWith(stripped, <<41>>)
    /\ Len(stripped) < ShortLinkLen

\* stripped.startswith("![") and "](" in stripped
IsImageLine(stripped) ==
    StartsWith(stripped, <<33, 91>>) /\ Contains(stripped, <<93, 40>>)

\* "blob:" in stripped
HasBlob(stripped) == Contains(stripped, <<98, 108, 111, 98, 58>>)

\* the loop of _clean_content over the lines still to read, `count` being
\* consecutive_short_links: the lines it appends to `cleaned`
\* the counter kept, instead of reset to 0, by a line that is not a short link
RECURSIVE CleanLines_NoReset(_, _)
CleanLines_NoReset(lines, count) ==
    IF lines = <<>> THEN <<>>
    ELSE LET line == Head(lines)
             stripped == Strip(line)
             count2 == IF IsShortLink(stripped) THEN count + 1 ELSE count
             dropped == \/ (IsShortLink(stripped) /\ count2 > KeptShortLinks)
                        \/ IsImageLine(stripped)
                        \/ HasBlob(stripped)
         IN  (IF dropped THEN <<>> ELSE <<line>>) \o CleanLines_NoReset(Tail(lines), count2)

RECURSIVE CleanLines(_, _)
CleanLines(lines, count) ==
    IF lines = <<>> THEN <<>>
    ELSE LET line == Head(lines)
             stripped == Strip(line)
             count2 == IF IsShortLink(stripped) THEN count + 1 ELSE 0
             dropped == \/ (IsShortLink(stripped) /\ count2 > KeptShortLinks)
                        \/ IsImageLine(stripped)
                        \/ HasBlob(stripped)
         IN  (IF dropped THEN <<>> ELSE <<line>>) \o CleanLines(Tail(lines), count2)

CleanContent(text) == JoinLines(CleanLines(SplitLines(text), 0))

\* "\n\n...[内容已截断]"
TruncationMarker == <<10, 10, 46, 46, 46, 91, 20869, 23481, 24050, 25130, 26029, 93>>

\* the text cut at max_length without the marker
Truncate_NoMarker(content, max_length) ==
    IF Len(content) > max_length THEN PySlicePrefix(content, max_length) ELSE content

\* lines 69-70
Truncate(content, max_length) ==
    IF Len(content) > max_length
    THEN PySlicePrefix(content, max_length) \o TruncationMarker
    ELSE content

\* the longest title taken from a line that is no heading (line.strip()[:100])
TitleLen == 100

\* s.lstrip("#")
RECURSIVE LStripHash(_)
LStripHash(s) == IF s # <<>> /\ Head(s) = 35 THEN LStripHash(Tail(s)) ELSE s

\* lines 72-79: the title is taken from the first line that is not blank
RECURSIVE ExtractTitle(_)
ExtractTitle(lines) ==
    IF lines = <<>> THEN <<>>
    ELSE LET stripped == Strip(Head(lines))
         IN  IF StartsWith(stripped, <<35>>) THEN Strip(LStripHash(stripped))
             ELSE IF stripped # <<>> THEN PySlicePrefix(stripped, TitleLen)
             ELSE ExtractTitle(Tail(lines))

\* FetchedContent(...)
FetchedContent(url, title, content, word_count, success, err) ==
    [url |-> url, title |-> title, content |-> content, word_count |-> word_count,
     success |-> success, error |-> err]

\* the except clause of httpx.TimeoutException missing: a timeout leaves fetch_one
FetchOne_TimeoutEscapes(url, timeout, max_length, o) ==
    CASE o.kind = "ok" ->
             LET content == Truncate(CleanContent(o.text), max_length)
             IN  FetchedContent(url, ExtractTitle(SplitLines(content)), content,
                                Len(content), TRUE, None)
      [] o.kind = "timeout" -> [exception |-> "TimeoutException"]
      [] o.kind = "http_status" ->
             FetchedContent(url, <<>>, <<>>, 0, FALSE, "HTTP " \o o.status)
      [] OTHER ->
             FetchedContent(url, <<>>, <<>>, 0, FALSE, o.message)

\* raise_for_status() missing: the body of an error response is taken as the page
FetchOne_StatusIgnored(url, timeout, max_length, o) ==
    CASE o.kind \in {"ok", "http_status"} ->
             LET text == IF o.kind = "ok" THEN o.text ELSE <<52, 48, 52>>
                 content == Truncate(CleanContent(text), max_length)
             IN  FetchedContent(url, ExtractTitle(SplitLines(content)), content,
                                Len(content), TRUE, None)
      [] o.kind = "timeout" ->
             FetchedContent(url, <<>>, <<>>, 0, FALSE, "timeout (" \o timeout \o "s)")
      [] OTHER ->
             FetchedContent(url, <<>>, <<>>, 0, FALSE, o.message)

\* An outcome of the network call of fetch_one.  kind:
\*   ok           a 2xx response whose text is `text`
\*   timeout      client.get raises httpx.TimeoutException
\*   http_status  raise_for_status() raises httpx.HTTPStatusError, `status`
\*   error        any other exception, whose str() is `message`
\* fetch_one, lines 46-91, from the answer of the network call: the value it
\* returns.  The error text of a timeout, f"超时 ({timeout}s)", is written
\* "timeout (" \o timeout \o "s)".
FetchOne(url, timeout, max_length, o) ==
    CASE o.kind = "ok" ->
             LET content == Truncate(CleanContent(o.text), max_length)
             IN  FetchedContent(url, ExtractTitle(SplitLines(content)), content,
                                Len(content), TRUE, None)
      [] o.kind = "timeout" ->
             FetchedContent(url, <<>>, <<>>, 0, FALSE, "timeout (" \o timeout \o "s)")
      [] o.kind = "http_status" ->
             FetchedContent(url, <<>>, <<>>, 0, FALSE, "HTTP " \o o.status)
      [] OTHER ->
             FetchedContent(url, <<>>, <<>>, 0, FALSE, o.message)

\* page texts
B_article == <<35, 32, 84, 105, 116, 108, 101, 10, 72, 101, 108, 108, 111, 32, 119,
               111, 114, 108, 100>>
             \* "# Title\nHello world"
B_nav == <<91, 97, 93, 40, 117, 41, 10, 91, 98, 93, 40, 117, 41, 10, 32, 91, 99, 93,
           40, 117, 41, 10, 91, 100, 93, 40, 117, 41, 10, 91, 101, 93, 40, 117, 41, 10,
           116, 101, 120, 116, 10, 33, 91, 105, 109, 103, 93, 40, 120, 41, 10, 115, 101,
           101, 32, 98, 108, 111, 98, 58, 97, 98, 99, 10, 91, 102, 93, 40, 117, 41>>
             \* "[a](u)\n[b](u)\n [c](u)\n[d](u)\n[e](u)\ntext\n![img](x)\nsee blob:abc\n[f](u)"
B_plain == <<10, 32, 32, 80, 108, 97, 105, 110, 32, 102, 105, 114, 115, 116, 32, 108,
             105, 110, 101, 32, 10, 109, 111, 114, 101>>
             \* "\n  Plain first line \nmore"
B_heading == <<35, 35, 32, 32, 10, 120>>
             \* "##  \nx"
B_empty == <<>>

\* four runs of short link lines: four lines, a blank line, four lines the
\* third of which is 79 characters long, an image line, one line, a link line
\* of 80 characters, five lines
B_runs ==
    <<91, 97, 93, 40, 117, 41, 10, 91, 98, 93, 40, 117, 41, 10, 91, 99, 93, 40,
    117, 41, 10, 91, 100, 93, 40, 117, 41, 10, 10, 91, 101, 93, 40, 117, 41, 10,
    91, 102, 93, 40, 117, 41, 10, 91>>
    \o [i \in 1..74 |-> 107]
    \o <<93, 40, 117, 41, 10, 91, 104, 93, 40, 117, 41, 10, 33, 91, 105, 93, 40,
    120, 41, 10, 91, 106, 93, 40, 117, 41, 10, 91>>
    \o [i \in 1..75 |-> 107]
    \o <<93, 40, 117, 41, 10, 91, 108, 93, 40, 117, 41, 10, 91, 109, 93, 40, 117,
    41, 10, 91, 110, 93, 40, 117, 41, 10, 91, 111, 93, 40, 117, 41, 10, 91, 112,
    93, 40, 117, 41>>

\* [a](blob:1), [b](u), [c](u), [d](u): a run of four short link lines whose
\* first line holds a blob: address
B_blob_link ==
    <<91, 97, 93, 40, 98, 108, 111, 98, 58, 49, 41, 10, 91, 98, 93, 40, 117, 41,
    10, 91, 99, 93, 40, 117, 41, 10, 91, 100, 93, 40, 117, 41>>

PageTexts == {B_article, B_nav, B_plain, B_heading, B_empty, B_runs, B_blob_link}

FetchOutcomes ==
    {[kind |-> "ok", text |-> t] : t \in PageTexts}
    \cup {[kind |-> "timeout"]}
    \cup {[kind |-> "http_status", status |-> s] : s \in {"404", "503"}}
    \cup {[kind |-> "error", message |-> m] : m \in {"", "All connection attempts failed"}}

\* the outcomes drawn for the fetches of a batch
BatchOutcomes ==
    {[kind |-> "ok", text |-> B_article], [kind |-> "timeout"],
     [kind |-> "http_status", status |-> "404"],
     [kind |-> "error", message |-> "All connection attempts failed"]}

Timeouts == {"15.0", "5.0"}
MaxLengths == {-1, 0, 5, 8000}
Urls == {"https://a.com", "https://b.com"}

NoPage == [none |-> TRUE]
NoFetchOutcome == [kind |-> "none"]

\* a value of fetch_one that is an exception leaving it, not a FetchedContent
IsException(r) == "exception" \in DOMAIN r

\* fetch_one up to its suspension in client.get (line 63)
FetchOneCall(url, timeout, max_length) ==
    /\ fo_pc = "idle"
    /\ fo_args' = [url |-> url, timeout |-> timeout, max_length |-> max_length]
    /\ fo_pc' = "awaiting"
    /\ UNCHANGED <<fo_outcome, fo_result>>

\* fetch_one from the answer of the network call to its return
FetchOneRespond(o) ==
    /\ fo_pc = "awaiting"
    /\ fo_outcome' = o
    /\ LET r == FetchOne(fo_args.url, fo_args.timeout, fo_args.max_length, o)
       IN  /\ fo_result' = r
           /\ fo_pc' = IF IsException(r) THEN "raised" ELSE "returned"
    /\ UNCHANGED <<fo_args>>

(***************************************************************************)
(* JinaFetcher.fetch_many                                                  *)
(*                                                                         *)
(* gather() starts one task per url, in list order.  A task is pending     *)
(* until it holds the semaphore (asyncio.Semaphore wakes its waiters in    *)
(* the order they arrived, which is the list order), fetching while its    *)
(* fetch_one awaits the network, and done once fetch_one returned and      *)
(* `async with` released the semaphore.                                    *)
(***************************************************************************)
Tasks == 1..Len(task_pc)

\* the fetch_one calls that have started and not finished
InFlight == Cardinality({i \in Tasks : task_pc[i] = "fetching"})

\* lines 100-107 up to the first suspension: the semaphore and the tasks
FetchManyCall(urls, max_concurrent, timeout, max_length) ==
    /\ fm_pc = "idle"
    /\ fm_args' = [urls |-> urls, max_concurrent |-> max_concurrent,
                   timeout |-> timeout, max_length |-> max_length]
    /\ sem' = max_concurrent
    /\ task_pc' = [i \in 1..Len(urls) |-> "pending"]
    /\ task_outcome' = [i \in 1..Len(urls) |-> NoFetchOutcome]
    /\ task_result' = [i \in 1..Len(urls) |-> NoPage]
    /\ fm_out_of_order' = FALSE
    /\ fm_pc' = "running"
    /\ UNCHANGED <<fm_result>>

\* one semaphore per task instead of one per batch: no task ever waits
TaskAcquire_OwnSemaphore(i) ==
    /\ fm_pc = "running"
    /\ task_pc[i] = "pending"
    /\ task_pc' = [task_pc EXCEPT ![i] = "fetching"]
    /\ UNCHANGED <<fm_pc, fm_args, sem, task_outcome, task_result, fm_result,
                   fm_out_of_order>>

\* `async with semaphore` (line 103) entered by task i, and fetch_one called
TaskAcquire(i) ==
    /\ fm_pc = "running"
    /\ task_pc[i] = "pending"
    /\ \A j \in 1..(i - 1) : task_pc[j] # "pending"
    /\ sem > 0
    /\ sem' = sem - 1
    /\ task_pc' = [task_pc EXCEPT ![i] = "fetching"]
    /\ UNCHANGED <<fm_pc, fm_args, task_outcome, task_result, fm_result, fm_out_of_order>>

\* the semaphore released only after a successful fetch
TaskComplete_NoReleaseOnFailure(i, o) ==
    /\ fm_pc = "running"
    /\ task_pc[i] = "fetching"
    /\ LET r == FetchOne(fm_args.urls[i], fm_args.timeout, fm_args.max_length, o)
       IN  /\ task_result' = [task_result EXCEPT ![i] = r]
           /\ fm_pc' = IF IsException(r) THEN "raised" ELSE fm_pc
           /\ sem' = IF ~IsException(r) /\ r.success THEN sem + 1 ELSE sem
    /\ task_outcome' = [task_outcome EXCEPT ![i] = o]
    /\ task_pc' = [task_pc EXCEPT ![i] = "done"]
    /\ fm_out_of_order' = (fm_out_of_order \/ \E j \in 1..(i - 1) : task_pc[j] # "done")
    /\ UNCHANGED <<fm_args, fm_result>>

\* the fetch_one of task i returns (line 104) and `async with` releases the
\* semaphore; an exception leaving fetch_one would leave gather and fetch_many
TaskComplete(i, o) ==
    /\ fm_pc = "running"
    /\ task_pc[i] = "fetching"
    /\ LET r == FetchOne(fm_args.urls[i], fm_args.timeout, fm_args.max_length, o)
       IN  /\ task_result' = [task_result EXCEPT ![i] = r]
           /\ fm_pc' = IF IsException(r) THEN "raised" ELSE fm_pc
    /\ task_outcome' = [task_outcome EXCEPT ![i] = o]
    /\ task_pc' = [task_pc EXCEPT ![i] = "done"]
    /\ sem' = sem + 1
    /\ fm_out_of_order' = (fm_out_of_order \/ \E j \in 1..(i - 1) : task_pc[j] # "done")
    /\ UNCHANGED <<fm_args, fm_result>>

\* results kept in a dict keyed by url: a repeated url gets one result
Gather_ByUrl(results) ==
    [i \in 1..Len(results) |->
        results[CHOOSE j \in 1..Len(results) :
                    /\ results[j].url = results[i].url
                    /\ \A h \in 1..Len(results) : results[h].url = results[i].url => h <= j]]

\* list(await asyncio.gather(*tasks)): the tasks' results in the tasks' order
Gather(results) == [i \in 1..Len(results) |-> results[i]]

\* line 107: every task is done and fetch_many returns
FetchManyReturn ==
    /\ fm_pc = "running"
    /\ \A i \in Tasks : task_pc[i] = "done"
    /\ fm_result' = Gather(task_result)
    /\ fm_pc' = "returned"
    /\ UNCHANGED <<fm_args, sem, task_pc, task_outcome, task_result, fm_out_of_order>>

(***************************************************************************)
(* Inputs of the rewriter                                                  *)
(***************************************************************************)
Q_weather == <<21271, 20140, 20170, 22825, 22825, 27668, 24590, 20040, 26679>>
             \* 北京今天天气怎么样
Q_tesla == <<29305, 26031, 25289, 26368, 26032, 35009, 21592, 26032, 38395>>
             \* 特斯拉最新裁员新闻
Q_recent == <<26368, 36817, 26377, 20160, 20040, 26032, 38395>>
             \* 最近有什么新闻
Q_restaurant == <<35831, 38382, 21271, 20140, 38468, 36817, 26377, 20160, 20040,
                  22909, 21507, 30340, 39184, 21381, 25512, 33616, 19968, 19979>>
             \* 请问北京附近有什么好吃的餐厅推荐一下
Q_flight == <<24110, 25105, 26597, 19968, 19979, 26126, 22825, 19978, 28023, 39134,
              24448, 19996, 20140, 30340, 33322, 29677, 26102, 21051>>
             \* 帮我查一下明天上海飞往东京的航班时刻
Q_hotel == <<32, 32, 66, 101, 115, 116, 32, 72, 111, 116, 101, 108, 32, 110, 101,
             97, 114, 98, 121, 32, 84, 79, 68, 65, 89, 32>>
             \* "  Best Hotel nearby TODAY "
Q_python == <<80, 121, 116, 104, 111, 110, 32, 97, 115, 121, 110, 99, 105, 111, 32,
              25945, 31243>>
             \* Python asyncio 教程
Q_empty == <<>>
Q_recent_padded == <<32, 26368, 36817, 26412, 21608, 26377, 20160, 20040, 30005, 24433,
                     32>>
             \* " 最近本周有什么电影 "
Q_jackie == <<25104, 40857, 26368, 36817, 30340, 30005, 24433>>
             \* 成龙最近的电影
Q_short_prefix == <<35831, 38382, 21271, 20140, 22825, 27668>>
             \* 请问北京天气
Q_double == <<35831, 38382, 24110, 25105, 26597, 19968, 19979, 26126, 22825, 19978,
              28023, 39134, 24448, 19996, 20140, 30340, 33322, 29677>>
             \* 请问帮我查一下明天上海飞往东京的航班

Queries == {Q_weather, Q_tesla, Q_recent, Q_restaurant, Q_flight, Q_hotel, Q_python,
            Q_empty, Q_recent_padded, Q_jackie, Q_short_prefix, Q_double}

L_haidian == <<21271, 20140, 28023, 28096>>            \* 北京海淀
Locations == {<<>>, L_haidian}
Languages == {"zh-cn", "en"}

\* rewritten queries as an LLM writes them
LQ1 == <<21271, 20140, 32, 22825, 27668>>              \* 北京 天气
LQ2 == <<119, 101, 97, 116, 104, 101, 114>>            \* weather
LQ3 == <<84, 101, 115, 108, 97>>                       \* Tesla
LQ4 == <<110, 101, 119, 115>>                          \* news

JsonObjects == {
    [search_queries |-> <<LQ1>>],
    [search_queries |-> <<LQ1, LQ2>>, language |-> "en", time_filter |-> "d",
     search_type |-> "news"],
    [search_queries |-> <<LQ1, LQ2, LQ3, LQ4>>, language |-> "zh-cn",
     time_filter |-> None, search_type |-> "search"],
    [language |-> "en", search_type |-> "search"],
    [search_queries |-> <<>>, language |-> "en"] }

LlmFailureKinds == {"http_status", "timeout", "network", "body_not_json",
                    "bad_structure", "empty_content", "no_object", "unbalanced",
                    "invalid_json", "non_object"}

LlmOutcomes == {[kind |-> k] : k \in LlmFailureKinds}
               \cup {[kind |-> "object", value |-> v] : v \in JsonObjects}

(***************************************************************************)
(* SearchResult.to_context_string and SearchResult.get_reference_list      *)
(*                                                                         *)
(* The str fields that the model keeps as TLA+ strings (the url of a page, *)
(* the title, url and snippet of a source) are written into the text by    *)
(* Text.  A part is one element of `parts`: its text and the statement     *)
(* that appended it.                                                       *)
(***************************************************************************)
Text(s) ==
    CASE s = "" -> <<>>
      [] s = "https://a.com" -> <<104, 116, 116, 112, 115, 58, 47, 47, 97, 46, 99, 111, 109>>
      [] s = "https://b.com" -> <<104, 116, 116, 112, 115, 58, 47, 47, 98, 46, 99, 111, 109>>
      [] s = "https://c.com" -> <<104, 116, 116, 112, 115, 58, 47, 47, 99, 46, 99, 111, 109>>
      [] s = "A first" -> <<65, 32, 102, 105, 114, 115, 116>>
      [] s = "B" -> <<66>>
      [] s = "C" -> <<67>>
      [] s = "a1" -> <<97, 49>>
      [] s = "b1" -> <<98, 49>>
      [] s = "c1" -> <<99, 49>>

\* str(n) for an int n >= 0
RECURSIVE Decimal(_)
Decimal(n) == IF n < 10 THEN <<48 + n>> ELSE Decimal(n \div 10) \o <<48 + (n % 10)>>

\* "## 搜索结果 (Query: "
ContextTitlePrefix == <<35, 35, 32, 25628, 32034, 32467, 26524, 32, 40, 81, 117, 101,
                        114, 121, 58, 32>>
\* "### Source ["
SourceHeadingPrefix == <<35, 35, 35, 32, 83, 111, 117, 114, 99, 101, 32, 91>>
\* "URL: "
UrlPrefix == <<85, 82, 76, 58, 32>>
\* "\n...[内容已截断]"
ContextTruncationMarker == <<10, 46, 46, 46, 91, 20869, 23481, 24050, 25130, 26029, 93>>
\* "### 搜索摘要 (未能抓取正文，以下为搜索引擎摘要):\n"
FallbackHeading == <<35, 35, 35, 32, 25628, 32034, 25688, 35201, 32, 40, 26410, 33021,
                     25235, 21462, 27491, 25991, 65292, 20197, 19979, 20026, 25628,
                     32034, 24341, 25806, 25688, 35201, 41, 58, 10>>
\* "    "
SnippetIndent == <<32, 32, 32, 32>>

\* the characters a token is counted as (max_tokens_per_source * 4)
CharsPerToken == 4

Part(kind, text) == [kind |-> kind, text |-> text]

RECURSIVE ConcatAll(_)
ConcatAll(lists) == IF lists = <<>> THEN <<>> ELSE Head(lists) \o ConcatAll(Tail(lists))

\* lines 40-48: the parts appended for the page at index i - 1 of contents
PageParts(i, content, max_tokens_per_source) ==
    IF ~content.success THEN <<>>
    ELSE LET cap == max_tokens_per_source * CharsPerToken
             text == IF Len(content.content) > cap
                     THEN PySlicePrefix(content.content, cap) \o ContextTruncationMarker
                     ELSE content.content
         IN  << Part("source_heading",
                     SourceHeadingPrefix \o Decimal(i) \o <<93, 58, 32>> \o content.title),
                Part("source_url", UrlPrefix \o Text(content.url)),
                Part("source_text", text \o <<10>>) >>

\* lines 53-55: the parts appended for the source at index i - 1 of sources
SnippetParts(i, source) ==
    << Part("snippet_title", <<91>> \o Decimal(i) \o <<93, 32>> \o Text(source.title)),
       Part("snippet_url", SnippetIndent \o UrlPrefix \o Text(source.url)),
       Part("snippet_text", SnippetIndent \o Text(source.snippet) \o <<10>>) >>

\* the fallback written whenever some page failed
FallbackNeeded_AnyFailed(contents) == \E i \in 1..Len(contents) : ~contents[i].success

\* line 50: not any(c.success for c in self.contents)
FallbackNeeded(contents) == ~\E i \in 1..Len(contents) : contents[i].success

\* to_context_string, lines 36-55: the list `parts`
ContextParts(r, max_tokens_per_source) ==
    << Part("title", ContextTitlePrefix \o r.query \o <<41, 10>>) >>
    \o ConcatAll([i \in 1..Len(r.contents) |->
                     PageParts(i, r.contents[i], max_tokens_per_source)])
    \o (IF FallbackNeeded(r.contents)
        THEN << Part("fallback_heading", FallbackHeading) >>
             \o ConcatAll([i \in 1..Len(r.sources) |-> SnippetParts(i, r.sources[i])])
        ELSE <<>>)

\* to_context_string: "\n".join(parts) (line 57), kept with the parts
ToContextString(r, max_tokens_per_source) ==
    LET parts == ContextParts(r, max_tokens_per_source)
    IN  [parts |-> parts, text |-> JoinLines([i \in 1..Len(parts) |-> parts[i].text])]

\* the index counted from 0, as enumerate gives it
RefEntry_ZeroBased(i, content) ==
    [index |-> i - 1, title |-> content.title, url |-> content.url]

\* lines 64-68: the entry of the page at index i - 1 of contents
RefEntry(i, content) == [index |-> i, title |-> content.title, url |-> content.url]

\* the loop of get_reference_list from the page at index i - 1 on
RECURSIVE RefsFrom(_, _)
RefsFrom(contents, i) ==
    IF i > Len(contents) THEN <<>>
    ELSE (IF contents[i].success THEN <<RefEntry(i, contents[i])>> ELSE <<>>)
         \o RefsFrom(contents, i + 1)

\* the entries numbered by their own position in the list (len(refs) + 1)
GetReferenceList_Renumbered(r) ==
    LET rl == RefsFrom(r.contents, 1)
    IN  [j \in 1..Len(rl) |-> [rl[j] EXCEPT !.index = j]]

\* get_reference_list, lines 59-69
GetReferenceList(r) == RefsFrom(r.contents, 1)

NoContext == [parts |-> <<>>, text |-> <<>>]

\* to_context_string(max_tokens_per_source) called on sr
ToContextStringCall(m) ==
    /\ ctx_pc = "idle"
    /\ ctx_arg' = m
    /\ context' = ToContextString(sr, m)
    /\ ctx_pc' = "returned"
    /\ UNCHANGED <<sr, ref_pc, refs>>

\* get_reference_list() called on sr
GetReferenceListCall ==
    /\ ref_pc = "idle"
    /\ refs' = GetReferenceList(sr)
    /\ ref_pc' = "returned"
    /\ UNCHANGED <<sr, ctx_pc, ctx_arg, context>>

(***************************************************************************)
(* The rewriter on its own                                                 *)
(***************************************************************************)
OrchIdle ==
    /\ pc = "idle"
    /\ req = [query |-> <<>>, location |-> <<>>, language |-> "zh-cn", num_results |-> 0,
              fetch_top_n |-> 0, max_content_length |-> 0]
    /\ search_queries = <<>>
    /\ sq_idx = 0
    /\ search_calls = <<>>
    /\ search_log = <<>>
    /\ responses = <<>>
    /\ all_sources = <<>>
    /\ seen_urls = {}
    /\ bundle = [none |-> TRUE]  \* NoBundle
    /\ error = "none"

RewriterIdle ==
    /\ rw_pc = "idle"
    /\ rw_args = [query |-> <<>>, location |-> <<>>, language |-> "zh-cn"]
    /\ llm_requests = 0
    /\ llm_outcome = NoOutcome
    /\ rw_result = NoPlan
    /\ rw_error = "none"

FetchManyIdle ==
    /\ fm_pc = "idle"
    /\ fm_args = [urls |-> <<>>, max_concurrent |-> 0, timeout |-> "15.0", max_length |-> 0]
    /\ sem = 0
    /\ task_pc = <<>>
    /\ task_outcome = <<>>
    /\ task_result = <<>>
    /\ fm_result = <<>>
    /\ fm_out_of_order = FALSE

FetchOneIdle ==
    /\ fo_pc = "idle"
    /\ fo_args = [url |-> "", timeout |-> "15.0", max_length |-> 0]
    /\ fo_outcome = NoFetchOutcome
    /\ fo_result = NoPage

\* the requests of the instance, and the locals of a search() not yet called
Requests == {1, 2}

NoCall ==
    [pc |-> "idle",
     req |-> [query |-> <<>>, location |-> <<>>, language |-> "zh-cn", num_results |-> 0,
              fetch_top_n |-> 0, max_content_length |-> 0],
     llm_outcome |-> [kind |-> "none"],
     search_queries |-> <<>>, sq_idx |-> 0, responses |-> <<>>,
     all_sources |-> <<>>, seen_urls |-> {},
     urls |-> <<>>, sem |-> 0, task_pc |-> <<>>, task_outcome |-> <<>>, task_result |-> <<>>,
     bundle |-> [none |-> TRUE], error |-> "none", overlapped |-> FALSE]

ConcIdle == cc = [r \in Requests |-> NoCall]

RenderIdle ==
    /\ sr = [none |-> TRUE]  \* NoBundle
    /\ ctx_pc = "idle"
    /\ ctx_arg = 0
    /\ context = NoContext
    /\ ref_pc = "idle"
    /\ refs = <<>>

InitRewrite ==
    /\ llm_api_key \in BOOLEAN
    /\ RewriterIdle
    /\ OrchIdle
    /\ FetchManyIdle
    /\ FetchOneIdle
    /\ RenderIdle
    /\ ConcIdle

NextRewrite ==
    \/ \E q \in Queries, loc \in Locations, lang \in Languages :
           RewriteCall(q, loc, lang) /\ UNCHANGED <<orch_vars, fm_vars, fo_vars, render_vars, conc_vars>>
    \/ \E o \in LlmOutcomes :
           LlmRespond(o) /\ UNCHANGED <<orch_vars, fm_vars, fo_vars, render_vars, conc_vars>>

SpecRewrite == InitRewrite /\ [][NextRewrite]_vars

(***************************************************************************)
(* fetch_one on its own, and fetch_many on its own                         *)
(***************************************************************************)
InitFetchOne ==
    /\ llm_api_key = FALSE
    /\ RewriterIdle
    /\ OrchIdle
    /\ FetchManyIdle
    /\ FetchOneIdle
    /\ RenderIdle
    /\ ConcIdle

NextFetchOne ==
    \/ \E url \in Urls, timeout \in Timeouts, max_length \in MaxLengths :
           FetchOneCall(url, timeout, max_length) /\ UNCHANGED <<rw_vars, orch_vars, fm_vars, render_vars, conc_vars>>
    \/ \E o \in FetchOutcomes :
           FetchOneRespond(o) /\ UNCHANGED <<rw_vars, orch_vars, fm_vars, render_vars, conc_vars>>

SpecFetchOne == InitFetchOne /\ [][NextFetchOne]_vars

\* the longest batch passed to fetch_many, and the largest max_concurrent
MaxBatch == 3
MaxConcurrentArg == 2

RECURSIVE SeqsUpTo(_, _)
SeqsUpTo(S, n) ==
    IF n = 0 THEN {<<>>}
    ELSE LET shorter == SeqsUpTo(S, n - 1)
         IN  shorter \cup {Append(s, x) : s \in shorter, x \in S}

Batches == SeqsUpTo(Urls, MaxBatch)

InitFetch ==
    /\ llm_api_key = FALSE
    /\ RewriterIdle
    /\ OrchIdle
    /\ FetchManyIdle
    /\ FetchOneIdle
    /\ RenderIdle
    /\ ConcIdle

NextFetch ==
    \/ \E urls \in Batches, mc \in 1..MaxConcurrentArg :
           FetchManyCall(urls, mc, "15.0", 8000) /\ UNCHANGED <<rw_vars, orch_vars, fo_vars, render_vars, conc_vars>>
    \/ \E i \in Tasks : TaskAcquire(i) /\ UNCHANGED <<rw_vars, orch_vars, fo_vars, render_vars, conc_vars>>
    \/ \E i \in Tasks, o \in BatchOutcomes :
           TaskComplete(i, o) /\ UNCHANGED <<rw_vars, orch_vars, fo_vars, render_vars, conc_vars>>
    \/ FetchManyReturn /\ UNCHANGED <<rw_vars, orch_vars, fo_vars, render_vars, conc_vars>>

SpecFetch == InitFetch /\ [][NextFetch]_vars

\* The event loop runs every task that can run: a task at the head of the
\* semaphore's queue enters when a slot is free, and fetch_many returns once
\* gather has every result.  Every fetch_one ends: client.get returns or
\* raises within its timeout (fetch_jina.py line 62).
FetchFairness ==
    /\ \A i \in 1..MaxBatch :
           WF_vars(i \in Tasks /\ TaskAcquire(i)
                   /\ UNCHANGED <<rw_vars, orch_vars, fo_vars, render_vars, conc_vars>>)
    /\ \A i \in 1..MaxBatch :
           WF_vars(i \in Tasks /\ (\E o \in BatchOutcomes : TaskComplete(i, o))
                   /\ UNCHANGED <<rw_vars, orch_vars, fo_vars, render_vars, conc_vars>>)
    /\ WF_vars(FetchManyReturn /\ UNCHANGED <<rw_vars, orch_vars, fo_vars, render_vars, conc_vars>>)

SpecFetchLive == InitFetch /\ [][NextFetch]_vars /\ FetchFairness

(***************************************************************************)
(* to_context_string and get_reference_list on their own                   *)
(***************************************************************************)
\* the longest `sources` and `contents` of a rendered SearchResult
MaxRenderSources == 2
MaxRenderPages == 3

RenderSources ==
    {[title |-> "A first", url |-> "https://a.com", snippet |-> "a1", position |-> 1],
     [title |-> "B", url |-> "https://b.com", snippet |-> "b1", position |-> 2],
     [title |-> "C", url |-> "https://c.com", snippet |-> "", position |-> 1]}

\* a short page, a page longer than 4 characters without a heading, a failed page
RenderPages ==
    {FetchOne("https://a.com", "15.0", 3, [kind |-> "ok", text |-> B_heading]),
     FetchOne("https://b.com", "15.0", 8000, [kind |-> "ok", text |-> B_plain]),
     FetchOne("https://c.com", "15.0", 8000, [kind |-> "timeout"])}

RenderResults ==
    {[query |-> Q_weather, search_queries |-> <<Q_weather>>, sources |-> srcs,
      contents |-> pages] :
        srcs \in SeqsUpTo(RenderSources, MaxRenderSources),
        pages \in SeqsUpTo(RenderPages, MaxRenderPages)}

\* max_tokens_per_source: a cap of 4 characters, and the default
MaxTokensArgs == {1, 1500}

InitRender ==
    /\ llm_api_key = FALSE
    /\ RewriterIdle
    /\ OrchIdle
    /\ FetchManyIdle
    /\ FetchOneIdle
    /\ ConcIdle
    /\ sr \in RenderResults
    /\ ctx_pc = "idle"
    /\ ctx_arg = 0
    /\ context = NoContext
    /\ ref_pc = "idle"
    /\ refs = <<>>

NextRender ==
    \/ \E m \in MaxTokensArgs :
           ToContextStringCall(m) /\ UNCHANGED <<rw_vars, orch_vars, fm_vars, fo_vars, conc_vars>>
    \/ GetReferenceListCall /\ UNCHANGED <<rw_vars, orch_vars, fm_vars, fo_vars, conc_vars>>

SpecRender == InitRender /\ [][NextRender]_vars

(***************************************************************************)
(* SerperSearch.search and WebSearchSkill.search                           *)
(*                                                                         *)
(* An outcome of a search call.  kind:                                     *)
(*   ok           a 2xx response; `organic` is data["organic"] when the    *)
(*                body holds that key, each item a record whose DOMAIN is  *)
(*                the keys it holds                                        *)
(*   http_status  raise_for_status() raises httpx.HTTPStatusError          *)
(*   timeout      client.post raises httpx.TimeoutException                *)
(***************************************************************************)
NoBundle == [none |-> TRUE]

\* search_serper.py lines 41-49: the SearchSource list built from the body
SerperParse(o) ==
    LET organic == DictGet(o, "organic", <<>>)
    IN  [i \in 1..Len(organic) |->
            [title    |-> DictGet(organic[i], "title", ""),
             url      |-> DictGet(organic[i], "link", ""),
             snippet  |-> DictGet(organic[i], "snippet", ""),
             position |-> i]]

\* the exception a failed search call raises
SearchException(o) ==
    IF o.kind = "http_status" THEN "HTTPStatusError" ELSE "TimeoutException"

\* every source appended, seen or not
MergeSources_NoDedup(acc, seen, sources) ==
    [all |-> acc \o sources, seen |-> seen \cup {sources[i].url : i \in 1..Len(sources)}]

\* a later duplicate replaces the record kept for its url
RECURSIVE MergeSources_LastWins(_, _, _)
MergeSources_LastWins(acc, seen, sources) ==
    IF sources = <<>> THEN [all |-> acc, seen |-> seen]
    ELSE LET s == Head(sources)
         IN  IF s.url \in seen
             THEN MergeSources_LastWins(
                      [i \in 1..Len(acc) |-> IF acc[i].url = s.url THEN s ELSE acc[i]],
                      seen, Tail(sources))
             ELSE MergeSources_LastWins(Append(acc, s), seen \cup {s.url}, Tail(sources))

\* web_search_skill.py lines 93-96: the inner loop over one result list
RECURSIVE MergeSources(_, _, _)
MergeSources(acc, seen, sources) ==
    IF sources = <<>> THEN [all |-> acc, seen |-> seen]
    ELSE LET s == Head(sources)
         IN  IF s.url \notin seen
             THEN MergeSources(Append(acc, s), seen \cup {s.url}, Tail(sources))
             ELSE MergeSources(acc, seen, Tail(sources))

\* the default of num_results (search(), line 53)
NumResults == 6

\* the default of max_content_length (search(), line 55)
MaxContentLength == 6000

\* max_concurrent of the orchestrator's fetch_many call (line 113)
OrchMaxConcurrent == 4

\* lines 87-92: the arguments searcher.search receives for the query sq;
\* search_type and country are not passed and keep their defaults
SearchArgs(sq, plan) ==
    [query |-> sq, num_results |-> req.num_results, search_type |-> "search",
     country |-> None, language |-> plan.language, time_period |-> plan.time_filter]

\* one source too many: all_sources[:fetch_top_n + 1]
UrlsToFetch_OffByOne(sources, fetch_top_n) ==
    LET top == PySlicePrefix(sources, fetch_top_n + 1)
    IN  [i \in 1..Len(top) |-> top[i].url]

\* [s.url for s in all_sources[:fetch_top_n]] (line 111)
UrlsToFetch(sources, fetch_top_n) ==
    LET top == PySlicePrefix(sources, fetch_top_n)
    IN  [i \in 1..Len(top) |-> top[i].url]

\* the searches of all rewritten queries issued at once, as a gather would
ContinueFrom_FanOut(k, queries, sources) ==
    IF k <= Len(queries)
    THEN /\ sq_idx' = k
         /\ search_calls' = search_calls \o
                [j \in 1..(Len(queries) - k + 1) |-> SearchArgs(queries[k + j - 1], rw_result)]
         /\ pc' = "awaiting_search"
         /\ UNCHANGED fm_vars
    ELSE /\ sq_idx' = sq_idx
         /\ search_calls' = search_calls
         /\ pc' = "fetching"
         /\ FetchManyCall(UrlsToFetch(sources, req.fetch_top_n), OrchMaxConcurrent,
                          "15.0", req.max_content_length)

\* the loop of line 86 reaches the rewritten query k: its search is issued
\* (line 87), or, past the last one, fetch_many is called (lines 111-115)
ContinueFrom(k, queries, sources) ==
    IF k <= Len(queries)
    THEN /\ sq_idx' = k
         /\ search_calls' = Append(search_calls, SearchArgs(queries[k], rw_result))
         /\ pc' = "awaiting_search"
         /\ UNCHANGED fm_vars
    ELSE /\ sq_idx' = sq_idx
         /\ search_calls' = search_calls
         /\ pc' = "fetching"
         /\ FetchManyCall(UrlsToFetch(sources, req.fetch_top_n), OrchMaxConcurrent,
                          "15.0", req.max_content_length)

\* search() is called: lines 48-67, up to the first suspension in rewrite()
SearchCall(q, loc, lang, fetch_top_n) ==
    /\ pc = "idle"
    /\ req' = [query |-> q, location |-> loc, language |-> lang,
               num_results |-> NumResults, fetch_top_n |-> fetch_top_n,
               max_content_length |-> MaxContentLength]
    /\ pc' = "rewriting"
    /\ RewriteCall(q, loc, lang)
    /\ UNCHANGED <<search_queries, sq_idx, search_calls, search_log, responses,
                   all_sources, seen_urls, bundle, error, fm_vars, fo_vars, render_vars, conc_vars>>

\* rewrite() has ended: its exception leaves search(), or lines 68-87 run up
\* to the first search call
RewriteDone ==
    /\ pc = "rewriting"
    /\ rw_pc \in {"returned", "raised"}
    /\ IF rw_pc = "raised"
       THEN /\ pc' = "raised"
            /\ error' = rw_error
            /\ UNCHANGED <<search_queries, sq_idx, search_calls, all_sources, seen_urls,
                           fm_vars>>
       ELSE /\ search_queries' = rw_result.search_queries
            /\ all_sources' = <<>>
            /\ seen_urls' = {}
            /\ error' = error
            /\ ContinueFrom(1, rw_result.search_queries, <<>>)
    /\ UNCHANGED <<req, search_log, responses, bundle, rw_vars, fo_vars, render_vars, conc_vars>>

\* the failure counted as a query without results, and the loop goes on
SearchFails_Swallowed(o) ==
    /\ ContinueFrom(sq_idx + 1, search_queries, all_sources)
    /\ UNCHANGED <<responses, all_sources, seen_urls, error>>

\* the awaited search call raises (search_serper.py line 38): nothing in
\* search() catches it
SearchFails(o) ==
    /\ pc' = "raised"
    /\ error' = SearchException(o)
    /\ UNCHANGED <<responses, all_sources, seen_urls, sq_idx, search_calls, fm_vars>>

\* the awaited search call returns its list: lines 93-96, then the next
\* iteration of the loop or the fetch stage
SearchSucceeds(o) ==
    LET sources == SerperParse(o)
        merged == MergeSources(all_sources, seen_urls, sources)
    IN  /\ responses' = Append(responses, sources)
        /\ all_sources' = merged.all
        /\ seen_urls' = merged.seen
        /\ error' = error
        /\ ContinueFrom(sq_idx + 1, search_queries, merged.all)

\* the answer to the search call in flight
SearchRespond(o) ==
    /\ pc = "awaiting_search"
    /\ search_log' = Append(search_log, o.kind)
    /\ IF o.kind = "ok" THEN SearchSucceeds(o) ELSE SearchFails(o)
    /\ UNCHANGED <<req, search_queries, bundle, rw_vars, fo_vars, render_vars, conc_vars>>

\* SearchResult(...) (lines 134-139)
SearchResult(query, queries, sources, contents) ==
    [query |-> query, search_queries |-> queries, sources |-> sources,
     contents |-> contents]

\* fetch_many has ended: lines 117-139
FetchDone ==
    /\ pc = "fetching"
    /\ fm_pc \in {"returned", "raised"}
    /\ IF fm_pc = "raised"
       THEN /\ pc' = "raised"
            /\ error' = task_result[CHOOSE i \in Tasks : IsException(task_result[i])].exception
            /\ bundle' = bundle
       ELSE /\ pc' = "returned"
            /\ error' = error
            /\ bundle' = SearchResult(req.query, search_queries, all_sources, fm_result)
    /\ UNCHANGED <<req, search_queries, sq_idx, search_calls, search_log, responses,
                   all_sources, seen_urls, rw_vars, fm_vars, fo_vars, render_vars, conc_vars>>

\* result lists of the provider
O_ab == <<[title |-> "A first", link |-> "https://a.com", snippet |-> "a1"],
          [title |-> "B", link |-> "https://b.com", snippet |-> "b1"]>>
O_aca == <<[title |-> "A second", link |-> "https://a.com", snippet |-> "a2"],
           [title |-> "C", link |-> "https://c.com", snippet |-> "c1"],
           [title |-> "A third", link |-> "https://a.com", snippet |-> "a3"]>>
O_nolink == <<[title |-> "No link", snippet |-> "n1"],
              [title |-> "D", link |-> "https://d.com", snippet |-> "d1"],
              [title |-> "Empty link", link |-> "", snippet |-> "n2"]>>

SearchOutcomes ==
    {[kind |-> "ok"], [kind |-> "http_status"], [kind |-> "timeout"]}
    \cup {[kind |-> "ok", organic |-> l] : l \in {O_ab, O_aca, O_nolink}}

\* the largest fetch_top_n of a request
MaxFetchTopN == 2

RequestQueries == {Q_weather, Q_restaurant}

RequestLlmOutcomes ==
    {[kind |-> "http_status"], [kind |-> "body_not_json"],
     [kind |-> "object",
      value |-> [search_queries |-> <<LQ1, LQ2>>, language |-> "en", time_filter |-> "d",
                 search_type |-> "news"]]}

Init ==
    /\ llm_api_key \in BOOLEAN
    /\ RewriterIdle
    /\ OrchIdle
    /\ FetchManyIdle
    /\ FetchOneIdle
    /\ RenderIdle
    /\ ConcIdle

Next ==
    \/ \E q \in RequestQueries, loc \in Locations, n \in -1..MaxFetchTopN :
           SearchCall(q, loc, "zh-cn", n)
    \/ \E o \in RequestLlmOutcomes :
           LlmRespond(o) /\ UNCHANGED <<orch_vars, fm_vars, fo_vars, render_vars, conc_vars>>
    \/ RewriteDone
    \/ \E o \in SearchOutcomes : SearchRespond(o)
    \/ \E i \in Tasks : TaskAcquire(i) /\ UNCHANGED <<rw_vars, orch_vars, fo_vars, render_vars, conc_vars>>
    \/ \E i \in Tasks, o \in BatchOutcomes :
           TaskComplete(i, o) /\ UNCHANGED <<rw_vars, orch_vars, fo_vars, render_vars, conc_vars>>
    \/ FetchManyReturn /\ UNCHANGED <<rw_vars, orch_vars, fo_vars, render_vars, conc_vars>>
    \/ FetchDone

Spec == Init /\ [][Next]_vars

(***************************************************************************)
(* Two requests on one WebSearchSkill                                      *)
(*                                                                         *)
(* Each call of search() has its own locals (cc[r]); the instance holds    *)
(* the rewriter, the searcher and the fetcher, which hold keys only.  A    *)
(* call runs from one await to the next without interruption, so a step is *)
(* the code between two suspension points of one call.                     *)
(***************************************************************************)
\* another call of search() is between its first await and its end
Overlaps(r) ==
    \E x \in Requests \ {r} : cc[x].pc \notin {"idle", "returned", "raised"}

\* one dedup set kept on the instance and consulted by every call
SeenBy_Instance(r) == UNION {cc[x].seen_urls : x \in Requests}

\* seen_urls = set() (line 84): the set the call r consults is its own local
SeenBy(r) == cc[r].seen_urls

\* the for loop of the call with locals c reaches the rewritten query k (line
\* 86), or, past the last one, calls fetch_many (lines 111-115, fetch_jina.py
\* lines 100-106)
ConcContinue(c, k) ==
    IF k <= Len(c.search_queries)
    THEN [c EXCEPT !.sq_idx = k, !.pc = "awaiting_search"]
    ELSE LET urls == UrlsToFetch(c.all_sources, c.req.fetch_top_n)
         IN  [c EXCEPT !.pc = "fetching", !.urls = urls, !.sem = OrchMaxConcurrent,
                       !.task_pc = [i \in 1..Len(urls) |-> "pending"],
                       !.task_outcome = [i \in 1..Len(urls) |-> NoFetchOutcome],
                       !.task_result = [i \in 1..Len(urls) |-> NoPage]]

\* lines 68-87: rewrite returned `plan`
ConcStartSearches(c, plan) ==
    ConcContinue([c EXCEPT !.search_queries = plan.search_queries,
                           !.all_sources = <<>>, !.seen_urls = {}], 1)

\* search() called as request r, up to its first suspension
ConcSearchCall(r, q, loc, fetch_top_n) ==
    /\ cc[r].pc = "idle"
    /\ LET c == [cc[r] EXCEPT
                    !.req = [query |-> q, location |-> loc, language |-> "zh-cn",
                             num_results |-> NumResults, fetch_top_n |-> fetch_top_n,
                             max_content_length |-> MaxContentLength],
                    !.overlapped = Overlaps(r)]
       IN  cc' = [cc EXCEPT ![r] =
                     IF llm_api_key THEN [c EXCEPT !.pc = "awaiting_llm"]
                     ELSE ConcStartSearches(c, RewriteWithRules(q, loc, "zh-cn"))]
    /\ UNCHANGED <<rw_vars, orch_vars, fm_vars, fo_vars, render_vars>>

\* the LLM answers the rewrite of request r
ConcLlmRespond(r, o) ==
    /\ cc[r].pc = "awaiting_llm"
    /\ LET c == [cc[r] EXCEPT !.llm_outcome = o,
                              !.overlapped = cc[r].overlapped \/ Overlaps(r)]
           res == LlmExcept(LlmTry(o), [query |-> c.req.query, location |-> c.req.location,
                                        language |-> c.req.language])
       IN  cc' = [cc EXCEPT ![r] =
                     IF res.raised # "none"
                     THEN [c EXCEPT !.pc = "raised", !.error = res.raised]
                     ELSE ConcStartSearches(c, res.plan)]
    /\ UNCHANGED <<rw_vars, orch_vars, fm_vars, fo_vars, render_vars>>

\* the provider answers the search in flight of request r (lines 87-96)
ConcSearchRespond(r, o) ==
    /\ cc[r].pc = "awaiting_search"
    /\ LET c == [cc[r] EXCEPT !.overlapped = cc[r].overlapped \/ Overlaps(r)]
           sources == SerperParse(o)
           merged == MergeSources(c.all_sources, SeenBy(r), sources)
       IN  cc' = [cc EXCEPT ![r] =
                     IF o.kind # "ok"
                     THEN [c EXCEPT !.pc = "raised", !.error = SearchException(o)]
                     ELSE ConcContinue([c EXCEPT !.responses = Append(c.responses, sources),
                                                 !.all_sources = merged.all,
                                                 !.seen_urls = merged.seen],
                                       c.sq_idx + 1)]
    /\ UNCHANGED <<rw_vars, orch_vars, fm_vars, fo_vars, render_vars>>

\* task i of the fetch_many of request r enters its semaphore
ConcTaskAcquire(r, i) ==
    /\ cc[r].pc = "fetching"
    /\ cc[r].task_pc[i] = "pending"
    /\ \A j \in 1..(i - 1) : cc[r].task_pc[j] # "pending"
    /\ cc[r].sem > 0
    /\ cc' = [cc EXCEPT ![r].sem = @ - 1, ![r].task_pc[i] = "fetching",
                        ![r].overlapped = @ \/ Overlaps(r)]
    /\ UNCHANGED <<rw_vars, orch_vars, fm_vars, fo_vars, render_vars>>

\* the fetch_one of task i of request r returns
ConcTaskComplete(r, i, o) ==
    /\ cc[r].pc = "fetching"
    /\ cc[r].task_pc[i] = "fetching"
    /\ cc' = [cc EXCEPT ![r].sem = @ + 1, ![r].task_pc[i] = "done",
                        ![r].task_outcome[i] = o,
                        ![r].task_result[i] =
                            FetchOne(cc[r].urls[i], "15.0", cc[r].req.max_content_length, o),
                        ![r].overlapped = @ \/ Overlaps(r)]
    /\ UNCHANGED <<rw_vars, orch_vars, fm_vars, fo_vars, render_vars>>

\* gather has every result: fetch_many returns and search() returns the
\* SearchResult (lines 134-139)
ConcReturn(r) ==
    /\ cc[r].pc = "fetching"
    /\ \A i \in 1..Len(cc[r].task_pc) : cc[r].task_pc[i] = "done"
    /\ cc' = [cc EXCEPT ![r].pc = "returned",
                        ![r].bundle = SearchResult(cc[r].req.query, cc[r].search_queries,
                                                   cc[r].all_sources,
                                                   Gather(cc[r].task_result)),
                        ![r].overlapped = @ \/ Overlaps(r)]
    /\ UNCHANGED <<rw_vars, orch_vars, fm_vars, fo_vars, render_vars>>

\* fetch_top_n of a concurrent request
ConcFetchTopNs == {0, 1}

ConcQueries == {Q_weather, Q_flight}

ConcLlmOutcomes ==
    {[kind |-> "http_status"],
     [kind |-> "object", value |-> [search_queries |-> <<LQ1, LQ2>>]]}

ConcSearchOutcomes ==
    {[kind |-> "http_status"]} \cup {[kind |-> "ok", organic |-> l] : l \in {O_ab, O_aca}}

ConcFetchOutcomes == {[kind |-> "ok", text |-> B_article], [kind |-> "timeout"]}

InitConcurrent ==
    /\ llm_api_key \in BOOLEAN
    /\ RewriterIdle
    /\ OrchIdle
    /\ FetchManyIdle
    /\ FetchOneIdle
    /\ RenderIdle
    /\ ConcIdle

NextConcurrent ==
    \/ \E r \in Requests, q \in ConcQueries, n \in ConcFetchTopNs :
           ConcSearchCall(r, q, <<>>, n)
    \/ \E r \in Requests, o \in ConcLlmOutcomes : ConcLlmRespond(r, o)
    \/ \E r \in Requests, o \in ConcSearchOutcomes : ConcSearchRespond(r, o)
    \/ \E r \in Requests : \E i \in 1..Len(cc[r].task_pc) : ConcTaskAcquire(r, i)
    \/ \E r \in Requests : \E i \in 1..Len(cc[r].task_pc), o \in ConcFetchOutcomes :
           ConcTaskComplete(r, i, o)
    \/ \E r \in Requests : ConcReturn(r)

SpecConcurrent == InitConcurrent /\ [][NextConcurrent]_vars

(***************************************************************************)
(* Claims about the rewriter (SpecRewrite)                                 *)
(***************************************************************************)
RewriteEnded == rw_pc \in {"returned", "raised"}

\* C1: with an LLM key configured, rewrite never raises and returns a plan
\* of between 1 and 3 search queries, for every query and every outcome of
\* the LLM boundary.
C1_RewriteNeverRaises ==
    (llm_api_key /\ RewriteEnded) =>
        /\ rw_pc = "returned"
        /\ Len(rw_result.search_queries) >= 1
        /\ Len(rw_result.search_queries) <= MaxQueries

\* the LLM attempt failed in one of the ways the claim lists
LlmAttemptFailed(o) ==
    \/ o.kind \in {"http_status", "body_not_json", "bad_structure", "empty_content",
                   "no_object", "unbalanced", "invalid_json", "non_object"}
    \/ /\ o.kind = "object"
       /\ ("search_queries" \notin DOMAIN o.value \/ o.value.search_queries = <<>>)

\* C10: when the LLM attempt fails (HTTP error, malformed or empty body, JSON
\* parse failure, missing or empty search_queries), rewrite has sent exactly
\* one request and returns exactly the plan of the rule-based strategy for
\* the same arguments, without raising.
C10_FailureFallsBackToRules ==
    (llm_api_key /\ RewriteEnded /\ LlmAttemptFailed(llm_outcome)) =>
        /\ llm_requests = 1
        /\ rw_pc = "returned"
        /\ rw_error = "none"
        /\ rw_result = RewriteWithRules(rw_args.query, rw_args.location, rw_args.language)

\* rewrite took the rule path for the query 北京今天天气怎么样, no key being set
WeatherByRules ==
    /\ ~llm_api_key
    /\ rw_pc = "returned"
    /\ llm_requests = 0
    /\ rw_args.query = Q_weather

\* C15 as stated: with no LLM key, the query 北京今天天气怎么样 is rewritten by
\* the rules to language zh-cn, a time filter of a day ("d") and search type
\* search.
C15_WeatherScenarioDay ==
    WeatherByRules =>
        /\ rw_result.language = "zh-cn"
        /\ rw_result.time_filter = "d"
        /\ rw_result.search_type = "search"

\* C15 as amended: with no LLM key, the query 北京今天天气怎么样 is rewritten by
\* the rules to language zh-cn, a time filter of a week ("w", the query
\* holding 今天) and search type search.
C15_WeatherScenarioWeek ==
    WeatherByRules =>
        /\ rw_result.language = "zh-cn"
        /\ rw_result.time_filter = "w"
        /\ rw_result.search_type = "search"

\* the scenario with a location given: the plan holds the query alone
C15_Witness ==
    /\ WeatherByRules
    /\ rw_args.location = L_haidian
    /\ rw_result.search_queries = <<Q_weather>>

\* rewrite returned the plan of the rules, no key being set
ReturnedByRules ==
    /\ ~llm_api_key
    /\ rw_pc = "returned"
    /\ llm_requests = 0

\* a letter without its case
FoldCase(c) == IF c >= 65 /\ c <= 90 THEN c + 32 ELSE c

\* kw occurs in q, the case of the letters set aside
OccursIgnoringCase(kw, q) ==
    \E i \in 0..(Len(q) - Len(kw)) :
        \A j \in 1..Len(kw) : FoldCase(q[i + j]) = FoldCase(kw[j])

\* C21: the time filter of the rules is a month ("m") when the trimmed query
\* starts with 最近, whatever keyword it holds; otherwise a week ("w") when a
\* keyword of the freshness list occurs in it, the case of letters set aside;
\* otherwise None.  The query 特斯拉最新裁员新闻 gets a week and type news.
C21_RuleTimeFilter ==
    ReturnedByRules =>
        LET q == Strip(rw_args.query)
            recent == Len(q) >= 2 /\ q[1] = 26368 /\ q[2] = 36817
            fresh == \E k \in 1..Len(news_keywords) : OccursIgnoringCase(news_keywords[k], q)
        IN  /\ rw_result.time_filter =
                   (IF recent THEN "m" ELSE IF fresh THEN "w" ELSE None)
            /\ rw_args.query = Q_tesla =>
                   (rw_result.time_filter = "w" /\ rw_result.search_type = "news")

\* a query written with spaces around it, starting with 最近 once trimmed and
\* holding the keyword 本周, got a month
C21_Witness ==
    /\ ReturnedByRules
    /\ rw_args.query = Q_recent_padded
    /\ AnyKeywordIn(news_keywords, rw_args.query)
    /\ rw_result.time_filter = "m"

\* q without the first filler prefix of the list that it starts with, trimmed
\* again; q itself when it starts with none
WithoutFirstPrefix(q) ==
    LET matching == {k \in 1..Len(prefix_words) :
                        /\ Len(q) >= Len(prefix_words[k])
                        /\ \A j \in 1..Len(prefix_words[k]) : q[j] = prefix_words[k][j]}
    IN  IF matching = {} THEN q
        ELSE LET first == CHOOSE k \in matching : \A h \in matching : k <= h
             IN  Strip(SubSeq(q, Len(prefix_words[first]) + 1, Len(q)))

\* C22: the query list of the rules holds, in this order: the simplified
\* form, only when the trimmed query is longer than 15 characters and taking
\* off the first matching filler prefix changed it; the trimmed query, always;
\* the query followed by a space and the location, only when a location is
\* given and the query holds a locality keyword; cut to at most 3 entries.
C22_RuleQueryList ==
    ReturnedByRules =>
        LET q == Strip(rw_args.query)
            simplified == WithoutFirstPrefix(q)
            first == IF Len(q) > 15 /\ simplified # q THEN <<simplified>> ELSE <<>>
            last == IF /\ rw_args.location # <<>>
                       /\ \E k \in 1..Len(location_keywords) :
                              Contains(q, location_keywords[k])
                    THEN <<q \o <<32>> \o rw_args.location>>
                    ELSE <<>>
            full == first \o <<q>> \o last
        IN  /\ rw_result.search_queries = SubSeq(full, 1, Min(3, Len(full)))
            /\ \E i \in 1..Len(rw_result.search_queries) : rw_result.search_queries[i] = q
            /\ Len(rw_result.search_queries) <= 3

\* a query of three entries: the query without 请问, the query, the query
\* with the location
C22_Witness ==
    /\ ReturnedByRules
    /\ rw_args.query = Q_restaurant
    /\ rw_args.location = L_haidian
    /\ Len(rw_result.search_queries) = 3
    /\ rw_result.search_queries[1] = SubSeq(Q_restaurant, 3, Len(Q_restaurant))
    /\ rw_result.search_queries[2] = Q_restaurant
    /\ rw_result.search_queries[3] = Q_restaurant \o <<32>> \o L_haidian

(***************************************************************************)
(* Claims about fetch_one (SpecFetchOne)                                   *)
(***************************************************************************)
FetchedContentFields == {"url", "title", "content", "word_count", "success", "error"}

\* C9: fetch_one never raises and returns a FetchedContent with the requested
\* url; success is false exactly when the call timed out, got an HTTP error
\* status or failed otherwise, and then the content is empty, word_count is 0
\* and error is set; a successful page has no error.
C9_FetchOneAlwaysReturns ==
    /\ fo_pc # "raised"
    /\ fo_pc = "returned" =>
          /\ DOMAIN fo_result = FetchedContentFields
          /\ fo_result.url = fo_args.url
          /\ (~fo_result.success) <=> (fo_outcome.kind \in {"timeout", "http_status", "error"})
          /\ (~fo_result.success) =>
                 /\ fo_result.content = <<>>
                 /\ fo_result.word_count = 0
                 /\ fo_result.error # None
          /\ fo_result.success => fo_result.error = None

\* a failed page returned for an exception whose text is empty
C9_Witness ==
    /\ fo_pc = "returned"
    /\ fo_outcome.kind = "error"
    /\ fo_result.success = FALSE
    /\ fo_result.error = ""

\* the text fetch_one cleaned: _clean_content of the response text
CleanedText == CleanContent(fo_outcome.text)

FetchOneSucceeded == fo_pc = "returned" /\ fo_result.success

\* C11 as stated: for every successful fetch_one, a cleaned text longer than
\* max_length is returned as its first max_length characters followed by the
\* truncation marker, so no longer than max_length + len(marker); a cleaned
\* text not longer than max_length is returned unchanged; word_count is the
\* length of the returned content.
C11_TruncationLaw ==
    FetchOneSucceeded =>
        /\ Len(CleanedText) > fo_args.max_length =>
               /\ fo_result.content =
                      SubSeq(CleanedText, 1, fo_args.max_length) \o TruncationMarker
               /\ Len(fo_result.content) <= fo_args.max_length + Len(TruncationMarker)
        /\ Len(CleanedText) <= fo_args.max_length => fo_result.content = CleanedText
        /\ fo_result.word_count = Len(fo_result.content)

\* C11 as amended: for every successful fetch_one with max_length >= 0, a
\* cleaned text longer than max_length is returned as its first max_length
\* characters followed by the marker (max_length + len(marker) characters),
\* and a cleaned text not longer than max_length is returned unchanged; with
\* max_length < 0 the returned content is the cleaned text without its last
\* -max_length characters followed by the marker; word_count is always the
\* length of the returned content.
C11_TruncationLawNonNegative ==
    FetchOneSucceeded =>
        /\ (fo_args.max_length >= 0 /\ Len(CleanedText) > fo_args.max_length) =>
               /\ fo_result.content =
                      SubSeq(CleanedText, 1, fo_args.max_length) \o TruncationMarker
               /\ Len(fo_result.content) = fo_args.max_length + Len(TruncationMarker)
        /\ (fo_args.max_length >= 0 /\ Len(CleanedText) <= fo_args.max_length) =>
               fo_result.content = CleanedText
        /\ fo_args.max_length < 0 =>
               fo_result.content =
                   SubSeq(CleanedText, 1, Max(Len(CleanedText) + fo_args.max_length, 0))
                   \o TruncationMarker
        /\ fo_result.word_count = Len(fo_result.content)

\* a page whose cleaning dropped lines and whose cleaned text was cut at 5
C11_Witness ==
    /\ FetchOneSucceeded
    /\ fo_args.max_length = 5
    /\ CleanedText # fo_outcome.text
    /\ Len(CleanedText) > 5
    /\ Len(fo_result.content) = 5 + Len(TruncationMarker)

\* the lines of the page fetch_one received
PageLines == SplitLines(fo_outcome.text)

\* line i of the page, stripped, starts with "[", ends with ")" and has fewer
\* than 80 characters
ShortLinkLine(i) ==
    LET s == Strip(PageLines[i])
    IN  Len(s) >= 1 /\ Len(s) < 80 /\ s[1] = 91 /\ s[Len(s)] = 41

\* line i, stripped, starts with "![" and holds "]("
ImageLine(i) ==
    LET s == Strip(PageLines[i])
    IN  /\ Len(s) >= 2 /\ s[1] = 33 /\ s[2] = 91
        /\ \E j \in 1..(Len(s) - 1) : s[j] = 93 /\ s[j + 1] = 40

\* line i holds "blob:"
BlobLine(i) ==
    LET s == PageLines[i]
    IN  \E j \in 0..(Len(s) - 5) :
            /\ s[j + 1] = 98 /\ s[j + 2] = 108 /\ s[j + 3] = 111
            /\ s[j + 4] = 98 /\ s[j + 5] = 58

\* the place of the short link line i in its maximal run of consecutive short
\* link lines: 1 for the line that starts the run
RunPosition(i) ==
    LET before == {j \in 0..(i - 1) : j = 0 \/ ~ShortLinkLine(j)}
        last == CHOOSE j \in before : \A h \in before : h <= j
    IN  i - last

\* the lines of the page at the positions of keep, in page order, joined
RECURSIVE KeptFrom(_, _)
KeptFrom(i, keep) ==
    IF i > Len(PageLines) THEN <<>>
    ELSE (IF i \in keep THEN <<PageLines[i]>> ELSE <<>>) \o KeptFrom(i + 1, keep)

\* a successful fetch_one whose max_length is above the length of every page
FetchOneUncut == FetchOneSucceeded /\ fo_args.max_length = 8000

\* C23 as stated: of every maximal run of consecutive short link lines the
\* first 3 lines are kept and the 4th and later ones are dropped; any other
\* line ends the run (and is itself kept unless it is an image line or holds
\* "blob:").
C23_FirstThreeOfRunKept ==
    FetchOneUncut =>
        fo_result.content =
            JoinLines(KeptFrom(1, {i \in 1..Len(PageLines) :
                IF ShortLinkLine(i) THEN RunPosition(i) <= 3
                ELSE ~ImageLine(i) /\ ~BlobLine(i)}))

\* C23, amended: of every maximal run of consecutive short link lines the 4th
\* and later lines are dropped and each of the first 3 is kept unless it holds
\* "blob:", in which case it is dropped but still counts in the run; any other
\* line ends the run (and is itself kept unless it is an image line or holds
\* "blob:").
C23_FirstThreeOfRunKeptUnlessBlob ==
    FetchOneUncut =>
        fo_result.content =
            JoinLines(KeptFrom(1, {i \in 1..Len(PageLines) :
                /\ ShortLinkLine(i) => RunPosition(i) <= 3
                /\ ~ImageLine(i)
                /\ ~BlobLine(i)}))

\* the page of four runs was cleaned: 12 of its 17 lines are returned
C23_Witness ==
    /\ FetchOneUncut
    /\ fo_outcome.text = B_runs
    /\ Len(PageLines) = 17
    /\ Len(SplitLines(fo_result.content)) = 12

(***************************************************************************)
(* Claims about fetch_many (SpecFetch)                                     *)
(***************************************************************************)
\* C5: while fetch_many runs, the number of fetch_one calls started and not
\* finished is at most max_concurrent.
C5_InFlightBounded == InFlight <= fm_args.max_concurrent

\* a batch larger than max_concurrent with every slot taken and a task waiting
C5_Witness ==
    /\ fm_pc = "running"
    /\ Len(fm_args.urls) > fm_args.max_concurrent
    /\ InFlight = fm_args.max_concurrent
    /\ \E i \in Tasks : task_pc[i] = "pending"
    /\ \E i \in Tasks : task_pc[i] = "done"

\* C6: fetch_many returns a list as long as urls whose element i is the
\* result of fetching urls[i], whatever the order of completion.
C6_ResultsAlignedWithUrls ==
    fm_pc = "returned" =>
        /\ Len(fm_result) = Len(fm_args.urls)
        /\ \A i \in 1..Len(fm_args.urls) :
               fm_result[i] = FetchOne(fm_args.urls[i], fm_args.timeout,
                                       fm_args.max_length, task_outcome[i])

\* a returned batch with a repeated url whose two fetches ended differently,
\* a later task having finished before an earlier one
C6_Witness ==
    /\ fm_pc = "returned"
    /\ fm_out_of_order
    /\ \E i, j \in 1..Len(fm_args.urls) :
           /\ i < j
           /\ fm_args.urls[i] = fm_args.urls[j]
           /\ task_outcome[i] # task_outcome[j]
           /\ fm_result[i] # fm_result[j]

(***************************************************************************)
(* Claims about WebSearchSkill.search (Spec)                               *)
(***************************************************************************)
\* C2: in every returned bundle the urls of sources are pairwise distinct.
C2_SourceUrlsDistinct ==
    pc = "returned" =>
        \A i, j \in 1..Len(bundle.sources) :
            i # j => bundle.sources[i].url # bundle.sources[j].url

\* the url occurs twice in the list
RepeatsIn(list, url) ==
    \E i, j \in 1..Len(list) : i < j /\ list[i].url = url /\ list[j].url = url

\* a bundle merged from three result lists: one repeats a url within itself,
\* two share a url, one holds results whose url is the empty string
C2_Witness ==
    /\ pc = "returned"
    /\ Len(responses) = 3
    /\ \E k \in 1..3 : RepeatsIn(responses[k], "https://a.com")
    /\ \E k \in 1..3 : RepeatsIn(responses[k], "")
    /\ \E k, m \in 1..3 :
           /\ k < m
           /\ \E i \in 1..Len(responses[k]), j \in 1..Len(responses[m]) :
                  responses[k][i].url = responses[m][j].url
    /\ Len(bundle.sources) >= 4

RECURSIVE Flatten(_)
Flatten(lists) == IF lists = <<>> THEN <<>> ELSE Head(lists) \o Flatten(Tail(lists))

\* the elements of s whose url occurs at no earlier index, in the order of s
RECURSIVE FirstOccurrences(_, _)
FirstOccurrences(s, k) ==
    IF k > Len(s) THEN <<>>
    ELSE (IF \E j \in 1..(k - 1) : s[j].url = s[k].url THEN <<>> ELSE <<s[k]>>)
         \o FirstOccurrences(s, k + 1)

\* C3: sources is the concatenation of the provider's result lists, in the
\* order of the rewritten queries, with every later occurrence of a url
\* removed: the first record of a url is kept as the provider gave it (title,
\* snippet, rank), in the order of first appearance.
C3_FirstOccurrenceKept ==
    pc = "returned" => bundle.sources = FirstOccurrences(Flatten(responses), 1)

\* a bundle for which a later list repeated a url with another title and
\* rank, and whose kept records hold a rank above 1 after a rank of 1
C3_Witness ==
    /\ pc = "returned"
    /\ Len(responses) >= 2
    /\ \E i \in 1..Len(responses[1]), j \in 1..Len(responses[2]) :
           /\ responses[1][i].url = responses[2][j].url
           /\ responses[1][i].title # responses[2][j].title
           /\ responses[1][i].position # responses[2][j].position
    /\ \E i \in 1..Len(bundle.sources) :
           /\ i > 1
           /\ bundle.sources[i].position < bundle.sources[i - 1].position

\* C4 as stated: in every returned bundle, for any fetch_top_n, the pages are
\* no more than fetch_top_n and no more than the sources, and page i has the
\* url of source i.
C4_PagesWithinLimit ==
    pc = "returned" =>
        /\ Len(bundle.contents) <= req.fetch_top_n
        /\ Len(bundle.contents) <= Len(bundle.sources)
        /\ \A i \in 1..Len(bundle.contents) :
               bundle.contents[i].url = bundle.sources[i].url

\* C4 as amended: in every returned bundle the pages are no more than the
\* sources and page i has the url of source i; for fetch_top_n >= 0 they are
\* the pages of the first min(fetch_top_n, len(sources)) sources, so no more
\* than fetch_top_n; for fetch_top_n < 0 they are the pages of the first
\* max(len(sources) + fetch_top_n, 0) sources (the slice all_sources[:n]).
C4_PagesArePrefixOfSources ==
    pc = "returned" =>
        /\ Len(bundle.contents) <= Len(bundle.sources)
        /\ \A i \in 1..Len(bundle.contents) :
               bundle.contents[i].url = bundle.sources[i].url
        /\ req.fetch_top_n >= 0 =>
               Len(bundle.contents) = Min(req.fetch_top_n, Len(bundle.sources))
        /\ req.fetch_top_n < 0 =>
               Len(bundle.contents) = Max(Len(bundle.sources) + req.fetch_top_n, 0)

\* fetch_top_n = 2 with 5 deduplicated sources: 2 pages
C4_Witness ==
    /\ pc = "returned"
    /\ req.fetch_top_n = 2
    /\ Len(bundle.sources) = 5
    /\ Len(bundle.contents) = 2

\* C7: a failed search call raises out of search(): no bundle is returned,
\* no search is issued for the remaining rewritten queries and no page fetch
\* is started.
C7_SearchFailurePropagates ==
    \A k \in 1..Len(search_log) :
        search_log[k] # "ok" =>
            /\ pc = "raised"
            /\ error = (IF search_log[k] = "http_status" THEN "HTTPStatusError"
                                                        ELSE "TimeoutException")
            /\ bundle = NoBundle
            /\ k = Len(search_log)
            /\ Len(search_calls) = k
            /\ fm_pc = "idle"

\* the second of three searches failed with an HTTP status error after the
\* first had found sources
C7_Witness ==
    /\ pc = "raised"
    /\ Len(search_queries) = 3
    /\ search_log = <<"ok", "http_status">>
    /\ all_sources # <<>>

\* the rewrite and every search call of the request ended well
StagesSucceeded ==
    /\ rw_pc = "returned"
    /\ Len(search_log) = Len(search_queries)
    /\ \A k \in 1..Len(search_log) : search_log[k] = "ok"

\* C8: once the rewrite and all searches succeeded, no outcome of the page
\* fetches makes search() raise, and the returned bundle holds one page per
\* fetched url, each the result of its own fetch only.
C8_FetchFailuresTolerated ==
    /\ fm_pc # "raised"
    /\ (pc = "raised" => ~StagesSucceeded)
    /\ pc = "returned" =>
          /\ StagesSucceeded
          /\ Len(bundle.contents) = Len(fm_args.urls)
          /\ \A i \in 1..Len(fm_args.urls) :
                 bundle.contents[i] = FetchOne(fm_args.urls[i], fm_args.timeout,
                                               fm_args.max_length, task_outcome[i])

\* a bundle of two or more pages whose fetches all failed, one by a timeout
\* and one by an HTTP status
C8_Witness ==
    /\ pc = "returned"
    /\ Len(bundle.contents) >= 2
    /\ \A i \in 1..Len(bundle.contents) : ~bundle.contents[i].success
    /\ \E i, j \in 1..Len(bundle.contents) :
           task_outcome[i].kind = "timeout" /\ task_outcome[j].kind = "http_status"

(***************************************************************************)
(* Claims about to_context_string and get_reference_list (SpecRender)      *)
(***************************************************************************)
\* the parts that the statement `kind` appended, in order
PartsOfKind(parts, kind) == SelectSeq(parts, LAMBDA p : p.kind = kind)

\* the 1-based positions in contents of the pages with success = true
SuccessfulPositions(contents) ==
    SelectSeq([i \in 1..Len(contents) |-> i], LAMBDA i : contents[i].success)

NoPageSucceeded == \A i \in 1..Len(sr.contents) : ~sr.contents[i].success

\* C12: to_context_string emits the snippet fallback section (its heading,
\* then one entry per element of sources, numbered from 1) and no "Source ["
\* heading exactly when no page of contents succeeded (an empty contents
\* included); otherwise it emits one "Source [" heading per successful page
\* and no fallback section.
C12_FallbackIffNoPageSucceeded ==
    ctx_pc = "returned" =>
        LET headings == PartsOfKind(context.parts, "source_heading")
            fallback == PartsOfKind(context.parts, "fallback_heading")
            snippets == PartsOfKind(context.parts, "snippet_title")
        IN  /\ (Len(fallback) = 1) <=> NoPageSucceeded
            /\ NoPageSucceeded =>
                   /\ Len(headings) = 0
                   /\ Len(snippets) = Len(sr.sources)
                   /\ \A i \in 1..Len(sr.sources) :
                          snippets[i].text =
                              <<91>> \o Decimal(i) \o <<93, 32>> \o Text(sr.sources[i].title)
            /\ ~NoPageSucceeded =>
                   /\ Len(headings) = Len(SuccessfulPositions(sr.contents))
                   /\ Len(fallback) = 0
                   /\ Len(snippets) = 0

\* two failed pages and two sources rendered as the fallback section
C12_Witness ==
    /\ ctx_pc = "returned"
    /\ Len(sr.contents) = 2
    /\ NoPageSucceeded
    /\ Len(sr.sources) = 2
    /\ Len(PartsOfKind(context.parts, "snippet_title")) = 2

\* C13 as stated: the indices returned by get_reference_list are 1..k, k being
\* the number of successful pages, wherever the successful pages sit.
C13_IndicesContiguous ==
    ref_pc = "returned" =>
        [j \in 1..Len(refs) |-> refs[j].index] =
            [j \in 1..Len(SuccessfulPositions(sr.contents)) |-> j]

\* C13 as amended: get_reference_list returns k entries, k being the number of
\* successful pages; their indices increase strictly, each is the 1-based
\* position in contents of a successful page, and they are 1..k exactly when
\* no failed page precedes a successful one.
C13_IndicesArePagePositions ==
    ref_pc = "returned" =>
        /\ Len(refs) = Cardinality({i \in 1..Len(sr.contents) : sr.contents[i].success})
        /\ \A j \in 1..Len(refs) :
               /\ refs[j].index \in 1..Len(sr.contents)
               /\ sr.contents[refs[j].index].success
               /\ j > 1 => refs[j - 1].index < refs[j].index
        /\ (\A j \in 1..Len(refs) : refs[j].index = j)
               <=> ~\E i, h \in 1..Len(sr.contents) :
                       i < h /\ ~sr.contents[i].success /\ sr.contents[h].success

\* a failed page before two successful ones: the indices are 2 and 3
C13_Witness ==
    /\ ref_pc = "returned"
    /\ Len(sr.contents) = 3
    /\ ~sr.contents[1].success
    /\ Len(refs) = 2
    /\ refs[1].index = 2
    /\ refs[2].index = 3

\* C14: get_reference_list has one entry per successful page, in page order,
\* holding the page's 1-based position in contents, its title and its url;
\* the "Source [n]" heading that to_context_string emits for the same page
\* shows the same number and title, and is followed by the same url.
C14_CitationMatchesHeading ==
    /\ ref_pc = "returned" =>
           LET pos == SuccessfulPositions(sr.contents)
           IN  /\ Len(refs) = Len(pos)
               /\ \A j \in 1..Len(pos) :
                      refs[j] = [index |-> pos[j], title |-> sr.contents[pos[j]].title,
                                 url |-> sr.contents[pos[j]].url]
    /\ (ref_pc = "returned" /\ ctx_pc = "returned") =>
           LET headings == PartsOfKind(context.parts, "source_heading")
               urls == PartsOfKind(context.parts, "source_url")
           IN  /\ Len(headings) = Len(refs)
               /\ Len(urls) = Len(refs)
               /\ \A j \in 1..Len(refs) :
                      /\ headings[j].text =
                             SourceHeadingPrefix \o Decimal(refs[j].index) \o <<93, 58, 32>>
                             \o refs[j].title
                      /\ urls[j].text = UrlPrefix \o Text(refs[j].url)

\* both outputs of a result whose first page failed and whose second page,
\* a successful one, is not the page of the second source
C14_Witness ==
    /\ ref_pc = "returned"
    /\ ctx_pc = "returned"
    /\ Len(sr.sources) = 2
    /\ Len(sr.contents) = 3
    /\ ~sr.contents[1].success
    /\ sr.contents[2].success
    /\ sr.contents[2].url # sr.sources[2].url
    /\ Len(refs) = 2

(***************************************************************************)
(* Claims about the stages of WebSearchSkill.search (Spec)                 *)
(***************************************************************************)
\* C17: every search call of a request receives the parameters of the
\* request's rewrite plan: its language, its time filter and its search type,
\* the same for each rewritten query.
C17_SearchUsesPlanParameters ==
    \A k \in 1..Len(search_calls) :
        /\ search_calls[k].query = search_queries[k]
        /\ search_calls[k].language = rw_result.language
        /\ search_calls[k].time_period = rw_result.time_filter
        /\ search_calls[k].search_type = rw_result.search_type

\* the search calls issued and not yet answered
SearchesInFlight == Len(search_calls) - Len(search_log)

\* C18: within a request the rewriter is called once and has returned before
\* the first search is issued; the searches are issued one per rewritten
\* query, in list order, at most one of them in flight; no page fetch starts
\* before the search of the last rewritten query has returned.
C18_StagesInOrder ==
    /\ llm_requests <= 1
    /\ pc = "rewriting" => (search_calls = <<>> /\ fm_pc = "idle")
    /\ search_calls # <<>> =>
           /\ rw_pc = "returned"
           /\ search_queries = rw_result.search_queries
    /\ Len(search_calls) <= Len(search_queries)
    /\ \A k \in 1..Len(search_calls) : search_calls[k].query = search_queries[k]
    /\ SearchesInFlight \in {0, 1}
    /\ SearchesInFlight = 1 <=> pc = "awaiting_search"
    /\ fm_pc # "idle" =>
           /\ Len(search_calls) = Len(search_queries)
           /\ Len(search_log) = Len(search_queries)
           /\ \A k \in 1..Len(search_log) : search_log[k] = "ok"

\* a page fetch in flight after the three searches of a request returned
C18_Witness ==
    /\ pc = "fetching"
    /\ Len(search_queries) = 3
    /\ Len(search_log) = 3
    /\ InFlight >= 1

(***************************************************************************)
(* Claims about the termination of fetch_many (SpecFetchLive)              *)
(***************************************************************************)
\* C19: for every batch and every max_concurrent >= 1, every fetch_one
\* ending, each waiting task eventually holds the semaphore and starts its
\* fetch, each ended fetch has given its slot back whether it succeeded or
\* failed (the free slots and the fetches in flight always add up to
\* max_concurrent), and fetch_many eventually returns.
C19_FetchManyTerminates ==
    /\ [](fm_pc # "idle" => sem + InFlight = fm_args.max_concurrent)
    /\ \A i \in 1..MaxBatch :
           (i \in Tasks /\ task_pc[i] = "pending") ~> (i \in Tasks /\ task_pc[i] = "fetching")
    /\ (fm_pc = "running") ~> (fm_pc = "returned")

\* a returned batch of three urls fetched one at a time, one fetch having
\* failed, with the one slot free again
C19_Witness ==
    /\ fm_pc = "returned"
    /\ Len(fm_args.urls) = 3
    /\ fm_args.max_concurrent = 1
    /\ \E i \in 1..3 : ~fm_result[i].success
    /\ \E i \in 1..3 : fm_result[i].success
    /\ sem = 1

(***************************************************************************)
(* Claims about concurrent requests (SpecConcurrent)                       *)
(***************************************************************************)
\* the result lists merged one after the other, from an empty accumulator
RECURSIVE MergeAll(_, _, _)
MergeAll(acc, seen, lists) ==
    IF lists = <<>> THEN [all |-> acc, seen |-> seen]
    ELSE LET m == MergeSources(acc, seen, Head(lists))
         IN  MergeAll(m.all, m.seen, Tail(lists))

\* The bundle of a request run alone: the plan from the request and the LLM's
\* answer, the sources merged from the provider's result lists alone, the
\* pages from the outcomes of its own fetches (NoPage for a url it never
\* fetched).
RunAlone(key, request, llm_answer, result_lists, fetch_outcomes) ==
    LET plan == IF key
                THEN LlmExcept(LlmTry(llm_answer),
                               [query |-> request.query, location |-> request.location,
                                language |-> request.language]).plan
                ELSE RewriteWithRules(request.query, request.location, request.language)
        sources == MergeAll(<<>>, {}, result_lists).all
        urls == UrlsToFetch(sources, request.fetch_top_n)
    IN  SearchResult(request.query, plan.search_queries, sources,
                     [i \in 1..Len(urls) |->
                         IF i \in DOMAIN fetch_outcomes
                         THEN FetchOne(urls[i], "15.0", request.max_content_length,
                                       fetch_outcomes[i])
                         ELSE NoPage])

\* a request served alone (Spec) returns the bundle RunAlone describes
RunAloneIsSearch ==
    pc = "returned" => bundle = RunAlone(llm_api_key, req, llm_outcome, responses, task_outcome)

\* C20: of two requests running on one instance, interleaved at any of their
\* suspension points, each returns the bundle it would return alone for the
\* same answers of the LLM, the search provider and the page fetches: the
\* urls seen by the other request are not suppressed.
C20_RequestsIsolated ==
    \A r \in Requests :
        cc[r].pc = "returned" =>
            cc[r].bundle = RunAlone(llm_api_key, cc[r].req, cc[r].llm_outcome,
                                    cc[r].responses, cc[r].task_outcome)

\* two returned requests whose steps interleaved, the second of two searches
\* of request 1 and a search of request 2 having both returned https://a.com,
\* which the bundles of both hold
C20_Witness ==
    /\ \A r \in Requests : cc[r].pc = "returned" /\ cc[r].overlapped
    /\ Len(cc[1].responses) = 2
    /\ \A r \in Requests :
           \E i \in 1..Len(cc[r].bundle.sources) :
               cc[r].bundle.sources[i].url = "https://a.com"
    /\ \E i \in 1..Len(cc[1].responses[2]) : cc[1].responses[2][i].url = "https://a.com"
    /\ cc[1].bundle # cc[2].bundle

====
